---- MODULE Spec2Model ----
(***************************************************************************)
(* The multipath UDP tunnel: the Receiver (src/src/receiver.rs, listen),    *)
(* the Sender (src/src/sender.rs, listen), the trailer both exchange        *)
(* (src/src/types.rs, Payload) and the admission server                    *)
(* (src/src/whitelist.rs, server). Each component is a loop of its own and *)
(* has a specification of its own; one step is one iteration of its loop.  *)
(* For the Receiver that is a queue read that would block, a message that  *)
(* is dropped, or a message that is buffered, followed by the timeout rule *)
(* and the drain loop.                                                     *)
(*                                                                         *)
(* Time: `elapsed` is Instant::now().duration_since(last) in units of the  *)
(* would-block sleep, cut off at MaxElapsed (every value above Timeout     *)
(* makes the timeout test succeed alike). `instant` is the same clock in  *)
(* units of the ttl, for the timestamps of the SNAT source table.          *)
(*                                                                         *)
(* SnatSpec runs the Receiver and the Sender of a proxy-mode server over   *)
(* the source table they share, the Sender's idle sweep in its two steps   *)
(* (scan under the read lock, retain under the write lock). ShutdownSpec   *)
(* is main (src/src/main.rs): the running flag, the four threads, and the  *)
(* CommandGuards (src/src/utils.rs) each listen holds. LockSpec is the     *)
(* SNAT path again with one RwLock operation per step; BeaconSpec adds the *)
(* admission client (src/src/whitelist.rs, client) to the server.          *)
(***************************************************************************)
EXTENDS Integers, Sequences, FiniteSets, TLC

\* ------------------------------------------------------------- bounds
\* Largest trailer sequence the environment delivers.
MaxSeq == 2
\* configuration.fragments of the Sender: a logical packet is sent whole or in
\* this many fragments.
MaxFragments == 2
\* Number of messages the environment puts on the receive queue in a run.
MaxMsgs == 4
\* configuration.timeout, in units of the would-block sleep.
Timeout == 1
\* configuration.ttl, in steps of the clock of the source table.
Ttl == 1
\* Datagrams of clients and answers of the host in a run of the source table.
MaxInbound == 3
MaxReturns == 1
\* Length of a logical packet's UDP payload before the trailer is appended.
PayloadLen == 3
\* Number of egress interfaces of the Sender.
NumInterfaces == 2
\* Number of source IPs that send datagrams to the admission port.
NumSources == 2
\* The admission server's clock is followed for this many seconds after its
\* start and after the second in which a tag of the start has left the window.
MaxSlack == 1

\* -------------------------------------------------- program constants
UDP_HEADER == 8
IpHeaderLen == 20
TrailerLen == 4
MinPayloadLen == 28
\* The widths of the fields of the Payload bitfield.
FragmentsBits == 3
SequenceBits == 26
FragmentBits == 3
\* The admission server: the number of seconds a tag is tried against, and the
\* length of a tag (the receive buffer).
WINDOW_SIZE == 60
TagLen == 32

MaxElapsed == Timeout + 2

Seqs == 0..MaxSeq

Min(S) == CHOOSE x \in S : \A y \in S : x <= y

\* ------------------------------------------------------------ Payload
\* The 4 bytes of the trailer: the fields are packed in declaration order from
\* the least significant bit of a 32-bit word, stored least significant byte
\* first. Computed byte by byte.
into_bytes(f, s, i) ==
    LET low == 2 ^ (8 - FragmentsBits)
    IN << f + (2 ^ FragmentsBits) * (s % low),
          (s \div low) % 256,
          (s \div (low * 256)) % 256,
          (s \div (low * 65536)) + (2 ^ (8 - FragmentBits)) * i >>

\* Variant: the four bytes read in the opposite order.
from_bytes_reversed(b) ==
    LET low == 2 ^ (8 - FragmentsBits)
    IN [ fragments |-> b[4] % (2 ^ FragmentsBits),
         sequence |-> (b[4] \div (2 ^ FragmentsBits)) + low * b[3] + (low * 256) * b[2]
                        + (low * 65536) * (b[1] % (2 ^ (8 - FragmentBits))),
         fragment |-> b[1] \div (2 ^ (8 - FragmentBits)) ]

\* Payload::from_bytes with the getters fragments(), sequence(), fragment().
from_bytes(b) ==
    LET low == 2 ^ (8 - FragmentsBits)
    IN [ fragments |-> b[1] % (2 ^ FragmentsBits),
         sequence |-> (b[1] \div (2 ^ FragmentsBits)) + low * b[2] + (low * 256) * b[3]
                        + (low * 65536) * (b[4] % (2 ^ (8 - FragmentBits))),
         fragment |-> b[4] \div (2 ^ (8 - FragmentBits)) ]

\* ------------------------------------------------ what the Sender sent
\* The UDP payload of logical packet s.
Orig(s) == [k \in 1..PayloadLen |-> 10 * s + k]

\* The length of its IP header: packets with an odd sequence carry one word of
\* IP options.
IpHeaderLenOf(s) == IpHeaderLen + 4 * (s % 2)

\* Variant: every fragment carries len \div f bytes, the remainder is left out.
SliceEven(udp_payload, f, i) ==
    LET fragment_len == Len(udp_payload) \div f
    IN IF f > 1
       THEN SubSeq(udp_payload, i * fragment_len + 1, (1 + i) * fragment_len)
       ELSE udp_payload

\* The slice of a UDP payload that fragment i of f carries: f-1 chunks of
\* len \div f bytes, the last one running to the end of the payload.
Slice(udp_payload, f, i) ==
    LET fragment_len == Len(udp_payload) \div f
        last == i = f - 1
    IN IF f > 1
       THEN IF last
            THEN SubSeq(udp_payload, i * fragment_len + 1, Len(udp_payload))
            ELSE SubSeq(udp_payload, i * fragment_len + 1, (1 + i) * fragment_len)
       ELSE udp_payload

\* Variant: the length of the trailer left out of the UDP length.
udp_len_bare(n, f, i) ==
    UDP_HEADER + (n \div f) + (IF f > 1 /\ i = f - 1 THEN n % f ELSE 0)

\* The UDP length the Sender writes for fragment i of f of an n-byte payload.
udp_len(n, f, i) ==
    UDP_HEADER + (n \div f) + (IF f > 1 /\ i = f - 1 THEN n % f ELSE 0) + TrailerLen

\* Variant: with_sequence left out, the sequence field stays 0.
PacketUnnumbered(ip_header_len, udp_payload, seq, f, i) ==
    [ ip_header_len |-> ip_header_len,
      total_length |-> ip_header_len + udp_len(Len(udp_payload), f, i),
      udp_length |-> udp_len(Len(udp_payload), f, i),
      udp_payload |-> Slice(udp_payload, f, i),
      extra |-> into_bytes(f, 0, i) ]

\* The datagram the Sender builds for fragment i of f of a logical packet: the
\* IP header with its total length, the UDP header with its length, the slice
\* of the payload and the trailer.
Packet(ip_header_len, udp_payload, seq, f, i) ==
    [ ip_header_len |-> ip_header_len,
      total_length |-> ip_header_len + udp_len(Len(udp_payload), f, i),
      udp_length |-> udp_len(Len(udp_payload), f, i),
      udp_payload |-> Slice(udp_payload, f, i),
      extra |-> into_bytes(f, seq, i) ]

FragmentData(s, f, i) == Slice(Orig(s), f, i)

\* A datagram as it reaches the receive queue and as the Receiver parses it: IP
\* header, UDP header, the fragment's bytes and the 4-byte trailer, decoded into
\* (fragments, sequence, fragment).
UdpMsg(s, f, i) ==
    LET p == Packet(IpHeaderLenOf(s), Orig(s), s, f, i)
        extra == from_bytes(p.extra)
    IN [ protocol |-> "udp",
         len |-> p.ip_header_len + UDP_HEADER + Len(p.udp_payload) + Len(p.extra),
         ip_header_len |-> p.ip_header_len,
         total_length |-> p.total_length,
         udp_length |-> p.udp_length,
         sequence |-> extra.sequence,
         fragments |-> extra.fragments,
         fragment |-> extra.fragment,
         udp_payload |-> p.udp_payload,
         source |-> "client", destination_ip |-> "host", destination_port |-> "port" ]

UdpMsgs ==
    { UdpMsg(s, f, i) : <<s, f, i>> \in
        { t \in Seqs \X {1, MaxFragments} \X (0..(MaxFragments - 1)) : t[3] < t[2] } }

\* Messages the loop drops before it looks at a trailer.
ShortMsg == [ protocol |-> "udp", len |-> MinPayloadLen - 1 ]

\* UDP datagrams that pass the length test and have fewer than 4 bytes after
\* the UDP header.
RuntMsgs ==
    { [ protocol |-> "udp", len |-> n, ip_header_len |-> IpHeaderLen ] :
        n \in MinPayloadLen..(IpHeaderLen + UDP_HEADER + TrailerLen - 1) }
OtherMsg == [ protocol |-> "tcp", len |-> IpHeaderLen + UDP_HEADER + PayloadLen + TrailerLen ]

VARIABLES
    packets,        \* BTreeMap<u32, ReassembledPacket>
    current,        \* the sequence the drain loop looks up
    elapsed,        \* now - last, cut off at MaxElapsed
    sources,        \* the SNAT source table: destination port -> Source
    recv_dropped,   \* stats.recv_dropped
    recv_total,     \* stats.recv_total
    recv_current,   \* stats.recv_current
    snat,           \* configuration.snat.is_some()
    fragsOf,        \* the fragment count the Sender chose for each logical packet (0: not seen)
    nread,          \* history: messages read from the queue
    emitted,        \* history: the packets the drain loop has sent on, in order
    inorder,        \* history: every message so far was packet 0, 1, 2, ... unfragmented, in time
    stale,          \* history: a datagram with a sequence below current was answered
    verdicts,       \* history: the verdicts the Receiver has issued, counted by kind
    recv_state,     \* the Receiver's loop: "running", "returned" (Err), "panicked"
    trailer,        \* a Payload on its way from with_*().into_bytes() to from_bytes()
    id,             \* Sender: the sequence counter
    burst,          \* Sender: the socket calls of the iteration just done: every
                    \* send_to, and the socket option call that failed, if one did
    queued,         \* Sender: the length of the UDP payload just cut into datagrams (0: none)
    send_read,      \* Sender history: messages read from the queue
    send_verdicts,  \* Sender history: the verdicts issued, counted by kind
    send_total,     \* stats.send_total
    send_state,     \* the Sender's loop: "running", "returned" (Err), "panicked"
    cfg_fragments,  \* Sender: configuration.fragments
    src_strategy,   \* Sender: the source port strategy chosen at start
    evict,          \* Sender: the ports of the Sources whose idle scan found an
                    \* expired endpoint and whose retain has not run yet
    sweep,          \* Sender history: the last idle sweep that had to evict: the
                    \* port, the endpoints as the scan and as the retain found them
    running,        \* main: the flag every loop polls
    threads,        \* main: where each component's thread is: "spawned", in
                    \* "listen", returned "ok" or "err", "panicked", "done";
                    \* "absent" for the status thread of a silent run
    guards,         \* the CommandGuards with a cleanup each component holds
    table,          \* history: per rule, the install and -D commands executed
    results,        \* main: what the threads have sent on the channel
    rwlocks,        \* locks: for each RwLock the threads holding it shared, the one
                    \* holding it upgradable and the one that owns its writer bit
    pc,             \* locks: where the Receiver and the Sender are in their loop bodies
    cursor,         \* locks: the interface the Sender's loop over interfaces is at
    instant,        \* the monotonic clock, Instant::now(), in units of the ttl's
    now,            \* admission server: the clock, in seconds
    datagram,       \* admission server: what recv_from returned last (amt, src, buf)
    minimum,        \* admission server: the newest timestamp accepted
    whitelisted,    \* stats.whitelisted
    rules,          \* admission server: the rule guards installed
    accepted,       \* admission server history: the timestamps accepted, in order
    inflight,       \* admission: the client's beacons sent and not yet read by the server
    beaconed        \* admission client: the second of its last round of beacons

stats == <<recv_dropped, recv_total, recv_current>>
history == <<nread, emitted, inorder, stale, verdicts>>
receiver_vars == <<packets, current, elapsed, sources, stats, snat, fragsOf, history, recv_state>>
sender_vars == <<id, burst, queued, send_read, send_verdicts, send_total, send_state,
                 cfg_fragments, src_strategy, evict, sweep>>
whitelist_vars == <<now, datagram, minimum, whitelisted, rules, accepted, inflight, beaconed>>
main_vars == <<running, threads, guards, table, results>>
lock_vars == <<rwlocks, pc, cursor>>
vars == <<receiver_vars, trailer, sender_vars, whitelist_vars, instant, main_vars, lock_vars>>

NoVerdicts == [accept |-> 0, drop |-> 0]

\* SourceStrategy: Original keeps the captured source port, Fixed(p) replaces it;
\* Random draws a port for every packet, and Rotating, which keeps a drawn port
\* for an interval, is covered by Random.
Original == [kind |-> "Original"]
Fixed(p) == [kind |-> "Fixed", port |-> p]
Random == [kind |-> "Random"]

\* The components a specification leaves out stay as they are constructed.
TrailerIdle ==
    trailer = [stage |-> "idle", extra |-> <<>>, bytes |-> <<>>, decoded |-> <<>>]

\* configuration.ports
Ports == {"port", "port2"}

\* The threads main spawns, and the rules their guards stand for: one per port
\* for the Receiver and for the Sender, one per admitted IP for the admission
\* server.
Components == {"receiver", "sender", "whitelist", "status"}
Rules ==
    { <<c, p>> : c \in {"receiver", "sender"}, p \in Ports }
    \cup { <<"whitelist", ip>> : ip \in 1..NumSources }

\* The locks of the SNAT path: the source table, the addrs and the socket of a
\* Source, the socket of an interface; the two threads that take them.
Locks == {"table", "addrs", "socket", "interface"}
LockThreads == {"receiver", "sender"}
Unlocked == [readers |-> {}, up |-> "none", w |-> "none"]
At(label) == [at |-> label, addr |-> ""]

LocksIdle ==
    /\ rwlocks = [l \in Locks |-> Unlocked]
    /\ pc = [t \in LockThreads |-> At("head")]
    /\ cursor = 0

MainIdle ==
    /\ running = TRUE
    /\ threads = [c \in Components |-> "spawned"]
    /\ guards = [c \in Components |-> {}]
    /\ table = [r \in Rules |-> [added |-> 0, deleted |-> 0]]
    /\ results = <<>>

NoSweep == [port |-> "", scanned |-> <<>>, before |-> <<>>, done |-> FALSE]

SenderIdle ==
    /\ id = 0
    /\ burst = <<>>
    /\ queued = 0
    /\ send_read = 0
    /\ send_verdicts = NoVerdicts
    /\ send_total = 0
    /\ send_state = "running"
    /\ cfg_fragments = 1
    /\ src_strategy = Original
    /\ evict = {}
    /\ sweep = NoSweep

NoDatagram == [len |-> 0, src |-> 0, tag |-> <<>>]

WhitelistIdle ==
    /\ now = 0
    /\ datagram = NoDatagram
    /\ minimum = 0
    /\ whitelisted = <<>>
    /\ rules = <<>>
    /\ accepted = <<>>
    /\ inflight = {}
    /\ beaconed = 0

\* ------------------------------------------------------ ReassembledPacket
NoneSlot == [some |-> FALSE, data |-> <<>>]
SomeSlot(d) == [some |-> TRUE, data |-> d]

\* btree_map::Entry::Vacant: the entry a first datagram of a sequence creates.
NewPacket(m, proxy) ==
    [ id |-> m.sequence,
      ip_header_length |-> m.ip_header_len,
      headers |-> m.ip_header_len + UDP_HEADER,
      payload |-> IF m.fragments > 1 THEN <<>> ELSE m.udp_payload,
      fragments |-> [ i \in 1..m.fragments |->
                        IF m.fragments > 1 /\ i = m.fragment + 1
                        THEN SomeSlot(m.udp_payload) ELSE NoneSlot ],
      destination |-> m.destination_port,
      completed |-> m.fragments < 2,
      msg |-> ~proxy ]

\* btree_map::Entry::Occupied with extra.fragments() > 1: only an empty slot is filled.
AddFragment(packet, m) ==
    IF packet.fragments[m.fragment + 1].some
    THEN packet
    ELSE LET filled == [packet.fragments EXCEPT ![m.fragment + 1] = SomeSlot(m.udp_payload)]
         IN [packet EXCEPT !.fragments = filled,
                           !.completed = \A i \in DOMAIN filled : filled[i].some]

\* match packets.entry(extra.sequence())
Store(pk, m, proxy) ==
    IF m.sequence \notin DOMAIN pk
    THEN (m.sequence :> NewPacket(m, proxy)) @@ pk
    ELSE IF m.fragments > 1
         THEN [pk EXCEPT ![m.sequence] = AddFragment(@, m)]
         ELSE pk

Remove(pk, k) == [j \in DOMAIN pk \ {k} |-> pk[j]]

\* Variant: the sequence test left out of the if-let chain.
SequenceAny(sequence, cur) == TRUE

\* The last condition of the if-let chain.
SequenceOk(sequence, cur) == sequence >= cur

\* Variant: the timeout rule fires one unit late.
TimedOutLate(age) == age > Timeout + 1

\* Variant: the timeout rule fires at the timeout already.
TimedOutAtTimeout(age) == age >= Timeout

\* The test of the timeout rule.
TimedOut(age) == age > Timeout

\* Variant: the timeout rule moves current to the last key of the buffer.
LastKey(pk) == CHOOSE k \in DOMAIN pk : \A other \in DOMAIN pk : other <= k

\* packets.first_key_value()
FirstKey(pk) == Min(DOMAIN pk)

\* The amount the timeout rule adds to recv_dropped.
Skipped(first, cur) == first - cur

\* Variant: current set to the sequence after the removed entry's.
AfterEmitNext(packet) == packet.id + 1

\* What the loop body assigns to current after an entry was removed.
AfterEmit(packet) == packet.id

RECURSIVE Concat(_, _)
Concat(slots, i) ==
    IF i > Len(slots) THEN <<>>
    ELSE (IF slots[i].some THEN slots[i].data ELSE <<>>) \o Concat(slots, i + 1)

\* The datagram the drain loop builds from a completed entry.
Reassemble(packet) ==
    LET data == IF Len(packet.fragments) > 1
                THEN packet.payload \o Concat(packet.fragments, 1)
                ELSE packet.payload
        udp_length == (packet.headers + Len(packet.payload)) - packet.ip_header_length
                      + (IF Len(packet.fragments) > 1
                         THEN Len(Concat(packet.fragments, 1)) ELSE 0)
    IN [ id |-> packet.id,
         fragments |-> Len(packet.fragments),
         data |-> data,
         udp_length |-> udp_length,
         total_length |-> packet.ip_header_length + udp_length ]

\* What leaves the Receiver when an entry is drained: an SNAT send when a Source
\* exists for the destination port, an ACCEPT of the held message in forward mode.
Sent(packet, proxy, srcs) ==
    IF proxy
    THEN IF packet.destination \in DOMAIN srcs
         THEN <<Reassemble(packet) @@ [via |-> "snat"]>>
         ELSE <<>>
    ELSE IF packet.msg
         THEN <<Reassemble(packet) @@ [via |-> "accept"]>>
         ELSE <<>>

\* The drain loop: while packets[current] exists and is completed, send it on,
\* remove it, assign current and reset last.
RECURSIVE Drain(_, _, _, _, _, _)
Drain(pk, cur, out, removed, proxy, srcs) ==
    IF cur \in DOMAIN pk /\ pk[cur].completed
    THEN Drain(Remove(pk, cur), AfterEmit(pk[cur]), out \o Sent(pk[cur], proxy, srcs),
               removed + 1, proxy, srcs)
    ELSE [packets |-> pk, current |-> cur, out |-> out, removed |-> removed]

\* Source::new: the destination address of the inbound packet, no endpoint yet.
\* The socket, bound to the SNAT address, has no state of its own here.
Source_new(ip, port) == [ip |-> ip, port |-> port, addrs |-> <<>>]

\* Variant: the time left to the end of the observation stored, a clock that
\* runs backwards.
Source_attach_backwards(source, addr) ==
    [source EXCEPT !.addrs = (addr :> Ttl + 1 - instant) @@ @]

\* Source::attach: last of the endpoint becomes Instant::now(), the endpoint is
\* inserted when it is absent.
Source_attach(source, addr) ==
    [source EXCEPT !.addrs = (addr :> instant) @@ @]

\* Variant: a Source is created for every accepted message.
AttachNew(srcs, m, proxy) ==
    IF ~proxy THEN srcs
    ELSE (m.destination_port :>
            Source_attach(Source_new(m.destination_ip, m.destination_port), m.source))
         @@ srcs

\* The SNAT branch of an accepted message: the Source of the destination port is
\* created if absent and the client endpoint attached.
Attach(srcs, m, proxy) ==
    IF ~proxy THEN srcs
    ELSE IF m.destination_port \in DOMAIN srcs
         THEN [srcs EXCEPT ![m.destination_port] = Source_attach(@, m.source)]
         ELSE (m.destination_port :>
                 Source_attach(Source_new(m.destination_ip, m.destination_port), m.source))
              @@ srcs

\* One iteration on an accepted message, as a function of the loop's state.
Process(pk, cur, age, srcs, proxy, m) ==
    LET srcs1 == Attach(srcs, m, proxy)
        pk1 == Store(pk, m, proxy)
        fire == TimedOut(age) /\ DOMAIN pk1 # {}
        dropped == IF fire THEN Skipped(FirstKey(pk1), cur) ELSE 0
        cur1 == IF fire THEN FirstKey(pk1) ELSE cur
        d == Drain(pk1, cur1, <<>>, 0, proxy, srcs1)
    IN [ packets |-> d.packets, current |-> d.current, out |-> d.out,
         elapsed |-> IF d.removed > 0 THEN 0 ELSE age,
         dropped |-> dropped, sources |-> srcs1,
         buffered |-> pk1, advanced |-> cur1,
         drops |-> IF proxy \/ m.sequence \in DOMAIN pk THEN 1 ELSE 0,
         accepts |-> IF proxy THEN 0 ELSE Len(d.out) ]

\* ------------------------------------------------------------- actions
Init ==
    /\ packets = <<>>
    /\ current = 0
    /\ elapsed = 0
    /\ sources = <<>>
    /\ recv_dropped = 0
    /\ recv_total = 0
    /\ recv_current = 0
    /\ snat \in BOOLEAN
    /\ fragsOf = [s \in Seqs |-> 0]
    /\ nread = 0
    /\ emitted = <<>>
    /\ inorder = TRUE
    /\ stale = FALSE
    /\ verdicts = NoVerdicts
    /\ recv_state = "running"
    /\ TrailerIdle
    /\ SenderIdle
    /\ WhitelistIdle
    /\ instant = 0
    /\ MainIdle
    /\ LocksIdle

\* queue.recv() would block: sleep and continue.
WouldBlock ==
    /\ recv_state = "running"
    /\ elapsed' = IF elapsed < MaxElapsed THEN elapsed + 1 ELSE elapsed
    /\ UNCHANGED <<packets, current, sources, stats, snat, fragsOf, history, recv_state>>
    /\ UNCHANGED <<trailer, sender_vars, whitelist_vars, instant, main_vars, lock_vars>>

\* payload.len() < 28: DROP, counted.
Short ==
    /\ recv_state = "running"
    /\ nread < MaxMsgs
    /\ ShortMsg.len < MinPayloadLen
    /\ verdicts' = [verdicts EXCEPT !.drop = @ + 1]
    /\ recv_dropped' = recv_dropped + 1
    /\ nread' = nread + 1
    /\ inorder' = FALSE
    /\ stale' = stale
    /\ UNCHANGED <<packets, current, elapsed, sources, recv_total, recv_current,
                   snat, fragsOf, emitted, recv_state>>
    /\ UNCHANGED <<trailer, sender_vars, whitelist_vars, instant, main_vars, lock_vars>>

\* The else branch of the if-let chain: not UDP, or a sequence below current.
Reject(m) ==
    /\ recv_state = "running"
    /\ nread < MaxMsgs
    /\ m.len >= MinPayloadLen
    /\ \/ m.protocol # "udp"
       \/ /\ m.protocol = "udp"
          /\ fragsOf[m.sequence] \in {0, m.fragments}
          /\ ~SequenceOk(m.sequence, current)
    /\ verdicts' = [verdicts EXCEPT !.drop = @ + 1]
    /\ recv_dropped' = recv_dropped + 1
    /\ nread' = nread + 1
    /\ inorder' = FALSE
    /\ stale' = (stale \/ m.protocol = "udp")
    /\ UNCHANGED <<packets, current, elapsed, sources, recv_total, recv_current,
                   snat, fragsOf, emitted, recv_state>>
    /\ UNCHANGED <<trailer, sender_vars, whitelist_vars, instant, main_vars, lock_vars>>

\* A message that passes the if-let chain: buffered, then the timeout rule and
\* the drain loop.
Listen(m) ==
    /\ recv_state = "running"
    /\ nread < MaxMsgs
    /\ m.len >= MinPayloadLen
    /\ m.protocol = "udp"
    /\ fragsOf[m.sequence] \in {0, m.fragments}
    /\ SequenceOk(m.sequence, current)
    /\ LET r == Process(packets, current, elapsed, sources, snat, m)
       IN /\ packets' = r.packets
          /\ current' = r.current
          /\ elapsed' = r.elapsed
          /\ sources' = r.sources
          /\ recv_dropped' = recv_dropped + r.dropped
          /\ recv_current' = r.current
          /\ emitted' = emitted \o r.out
          /\ verdicts' = [accept |-> verdicts.accept + r.accepts,
                          drop |-> verdicts.drop + r.drops]
    /\ recv_total' = recv_total + 1
    /\ fragsOf' = [fragsOf EXCEPT ![m.sequence] = m.fragments]
    /\ nread' = nread + 1
    /\ inorder' = (/\ inorder
                   /\ m.fragments = 1
                   /\ m.sequence = nread
                   /\ (nread = 0 \/ elapsed < Timeout))
    /\ stale' = stale
    /\ UNCHANGED <<snat, recv_state>>
    /\ UNCHANGED <<trailer, sender_vars, whitelist_vars, instant, main_vars, lock_vars>>

\* A UDP datagram of 28 bytes or more whose UDP payload is shorter than the
\* trailer: udp_full_payload.len() - Payload::len() underflows. With overflow
\* checks the subtraction panics, without them the slice [..len - 4] is out of
\* range and panics: the loop ends there, before any verdict or counter.
Truncated(m) ==
    /\ recv_state = "running"
    /\ nread < MaxMsgs
    /\ m.len >= MinPayloadLen
    /\ m.protocol = "udp"
    /\ m.len - m.ip_header_len - UDP_HEADER < TrailerLen
    /\ recv_state' = "panicked"
    /\ nread' = nread + 1
    /\ inorder' = FALSE
    /\ stale' = stale
    /\ UNCHANGED <<packets, current, elapsed, sources, stats, snat, fragsOf, emitted,
                   verdicts>>
    /\ UNCHANGED <<trailer, sender_vars, whitelist_vars, instant, main_vars, lock_vars>>

\* Proxy mode, an accepted message after which the drain loop finds the entry at
\* current completed, and the SNAT socket's send_to (or set_header_included_v4)
\* returns an error: the `?` returns it from listen. The message was buffered
\* and answered, the timeout rule has run; the entry is still in the buffer.
SendFails(m) ==
    /\ recv_state = "running"
    /\ nread < MaxMsgs
    /\ m.len >= MinPayloadLen
    /\ m.protocol = "udp"
    /\ fragsOf[m.sequence] \in {0, m.fragments}
    /\ SequenceOk(m.sequence, current)
    /\ snat
    /\ LET r == Process(packets, current, elapsed, sources, snat, m)
       IN /\ Len(r.out) > 0
          /\ packets' = r.buffered
          /\ current' = r.advanced
          /\ sources' = r.sources
          /\ recv_dropped' = recv_dropped + r.dropped
          /\ verdicts' = [verdicts EXCEPT !.drop = @ + r.drops]
    /\ recv_state' = "returned"
    /\ fragsOf' = [fragsOf EXCEPT ![m.sequence] = m.fragments]
    /\ nread' = nread + 1
    /\ inorder' = FALSE
    /\ stale' = stale
    /\ UNCHANGED <<elapsed, recv_total, recv_current, snat, emitted>>
    /\ UNCHANGED <<trailer, sender_vars, whitelist_vars, instant, main_vars, lock_vars>>

Next ==
    \/ WouldBlock
    \/ Short
    \/ Reject(OtherMsg)
    \/ \E m \in UdpMsgs : Reject(m)
    \/ \E m \in UdpMsgs : Listen(m)
    \/ \E m \in UdpMsgs : SendFails(m)
    \/ \E m \in RuntMsgs : Truncated(m)

Spec == Init /\ [][Next]_vars

\* ------------------------------------------------- unbounded arrivals
\* The same loop with every logical packet sent whole (fragments = 1) and no
\* bound on the number of messages: the statistics and the history, which grow
\* with every message, are left out. Without fragments the state space affords
\* one more sequence number.
LiveSeqs == 0..(MaxSeq + 1)

LiveMsgs == { UdpMsg(s, 1, 0) : s \in LiveSeqs }

LiveInit ==
    /\ packets = <<>>
    /\ current = 0
    /\ elapsed = 0
    /\ sources = <<>>
    /\ recv_dropped = 0
    /\ recv_total = 0
    /\ recv_current = 0
    /\ snat \in BOOLEAN
    /\ fragsOf = [s \in LiveSeqs |-> 1]
    /\ nread = 0
    /\ emitted = <<>>
    /\ inorder = TRUE
    /\ stale = FALSE
    /\ verdicts = NoVerdicts
    /\ recv_state = "running"
    /\ TrailerIdle
    /\ SenderIdle
    /\ WhitelistIdle
    /\ instant = 0
    /\ MainIdle
    /\ LocksIdle

LiveListen(m) ==
    /\ recv_state = "running"
    /\ m.len >= MinPayloadLen
    /\ m.protocol = "udp"
    /\ fragsOf[m.sequence] = m.fragments
    /\ SequenceOk(m.sequence, current)
    /\ LET r == Process(packets, current, elapsed, sources, snat, m)
       IN /\ packets' = r.packets
          /\ current' = r.current
          /\ elapsed' = r.elapsed
          /\ sources' = r.sources
    /\ UNCHANGED <<stats, snat, fragsOf, history, recv_state>>
    /\ UNCHANGED <<trailer, sender_vars, whitelist_vars, instant, main_vars, lock_vars>>

LiveArrival == \E m \in LiveMsgs : LiveListen(m)

LiveNext ==
    \/ WouldBlock
    \/ LiveArrival

\* Time passes, and valid packets keep arriving.
LiveSpec == LiveInit /\ [][LiveNext]_vars /\ WF_vars(WouldBlock) /\ WF_vars(LiveArrival)

\* ------------------------------------------------------ the trailer alone
\* The sequences a trailer is built for: the smallest, the largest, and every
\* power of two of the 26-bit field with its predecessor.
TrailerSeqs ==
    (0..MaxSeq)
    \cup ((2 ^ SequenceBits - 1 - MaxSeq)..(2 ^ SequenceBits - 1))
    \cup { 2 ^ k : k \in 0..(SequenceBits - 1) }
    \cup { 2 ^ k - 1 : k \in 0..(SequenceBits - 1) }

\* Every (fragments, sequence, fragment) the Sender can put in a trailer.
Extras ==
    { [fragments |-> f, sequence |-> s, fragment |-> i] :
        <<f, s, i>> \in { t \in (1..(2 ^ FragmentsBits - 1)) \X TrailerSeqs
                                 \X (0..(2 ^ FragmentBits - 2)) : t[3] < t[1] } }

ReceiverIdle ==
    /\ packets = <<>>
    /\ current = 0
    /\ elapsed = 0
    /\ sources = <<>>
    /\ recv_dropped = 0
    /\ recv_total = 0
    /\ recv_current = 0
    /\ snat = FALSE
    /\ fragsOf = [s \in Seqs |-> 0]
    /\ nread = 0
    /\ emitted = <<>>
    /\ inorder = TRUE
    /\ stale = FALSE
    /\ verdicts = NoVerdicts
    /\ recv_state = "running"

TrailerInit ==
    /\ trailer \in { [stage |-> "new", extra |-> e, bytes |-> <<>>, decoded |-> <<>>] :
                        e \in Extras }
    /\ ReceiverIdle
    /\ SenderIdle
    /\ WhitelistIdle
    /\ instant = 0
    /\ MainIdle
    /\ LocksIdle

\* The Sender appends Payload::new().with_sequence().with_fragments()
\* .with_fragment().into_bytes() to the datagram.
AppendTrailer ==
    /\ trailer.stage = "new"
    /\ trailer' = [trailer EXCEPT
                     !.stage = "sent",
                     !.bytes = into_bytes(trailer.extra.fragments, trailer.extra.sequence,
                                          trailer.extra.fragment)]
    /\ UNCHANGED <<receiver_vars, sender_vars, whitelist_vars, instant, main_vars, lock_vars>>

\* The Receiver takes the last 4 bytes of the datagram and decodes them.
StripTrailer ==
    /\ trailer.stage = "sent"
    /\ trailer' = [trailer EXCEPT !.stage = "read", !.decoded = from_bytes(trailer.bytes)]
    /\ UNCHANGED <<receiver_vars, sender_vars, whitelist_vars, instant, main_vars, lock_vars>>

TrailerNext ==
    \/ AppendTrailer
    \/ StripTrailer

TrailerSpec == TrailerInit /\ [][TrailerNext]_vars

\* ------------------------------------------------------------ the Sender
\* The egress interfaces, numbered as interfaces.iter().enumerate() does.
Interfaces == 0..(NumInterfaces - 1)

\* configuration.fragment_threshold: a payload of PayloadLen bytes is split, a
\* shorter one is not.
FragmentThreshold == PayloadLen

\* The UDP payload of a message on the Sender's queue.
QueuedPayload(n) == [k \in 1..n |-> k]

\* The value of `broken` when no socket option call fails.
NoBreak == NumInterfaces

\* The number of fragments the Sender chooses for an n-byte payload.
FragmentsFor(n, configured) ==
    IF n >= FragmentThreshold
    THEN IF configured < NumInterfaces THEN configured ELSE NumInterfaces
    ELSE 1

\* Variant: a failed send_to ends the loop over the interfaces.
VisitedUntilFailure(failing, broken) ==
    IF \E k \in failing : k < broken
    THEN Min({ k \in failing : k < broken }) + 1
    ELSE broken

\* The number of interfaces whose send the loop reaches: all of them, unless
\* set_mark or set_header_included_v4 returns an error on interface `broken`;
\* a send_to that fails is reported and the loop goes on.
Visited(failing, broken) == broken

\* The port the strategy gives for a packet captured with source port
\* `captured`; `drawn` is what the random generator returns.
SrcPort(strategy, captured, drawn) ==
    CASE strategy.kind = "Original" -> captured
      [] strategy.kind = "Fixed" -> strategy.port
      [] OTHER -> drawn

\* The keys of a map in the order an iteration visits them: one fixed order.
RECURSIVE Iter(_)
Iter(S) ==
    IF S = {} THEN <<>>
    ELSE LET a == CHOOSE x \in S : TRUE IN <<a>> \o Iter(S \ {a})

\* The send_to calls made on interface k for the logical packet: one in forward
\* mode, with the interface's address and src_port as source; in proxy mode one
\* per endpoint attached to the Source found under src_port, with the Source's
\* ip and port as source, none when there is no such Source.
Sends(k, ip_header_len, n, fragments, failing, proxy, srcs, src_port) ==
    LET packet == Packet(ip_header_len, QueuedPayload(n), id, fragments, k % fragments)
        call(from, to) == [ call |-> "send_to", interface |-> k, packet |-> packet,
                            from |-> from, to |-> to, ok |-> k \notin failing ]
    IN IF proxy
       THEN IF src_port \in DOMAIN srcs
            THEN LET source == srcs[src_port]
                     addrs == Iter(DOMAIN source.addrs)
                 IN [ j \in 1..Len(addrs) |->
                        call([ip |-> source.ip, port |-> source.port], addrs[j]) ]
            ELSE <<>>
       ELSE << call([ip |-> <<"interface", k>>, port |-> src_port], "destination") >>

RECURSIVE Burst(_, _, _, _, _, _, _, _)
Burst(upto, ip_header_len, n, fragments, failing, proxy, srcs, src_port) ==
    IF upto = 0 THEN <<>>
    ELSE Burst(upto - 1, ip_header_len, n, fragments, failing, proxy, srcs, src_port)
         \o Sends(upto - 1, ip_header_len, n, fragments, failing, proxy, srcs, src_port)

\* The socket option call that returns an error on interface k.
OptionFails(k) ==
    [ call |-> "set_mark", interface |-> k, packet |-> <<>>, from |-> <<>>, to |-> <<>>,
      ok |-> FALSE ]

\* with_sequence(id): the setter of the 26-bit field takes a value that fits
\* the field and panics on any other.
InRange(seq) == seq < 2 ^ SequenceBits

\* The Sender is observed from its start, or from the logical packet before the
\* one that gets the last sequence of the field.
StartIds == {0, 2 ^ SequenceBits - 2}

SenderInit ==
    /\ id \in StartIds
    /\ burst = <<>>
    /\ queued = 0
    /\ send_read = 0
    /\ send_verdicts = NoVerdicts
    /\ send_total = id
    /\ send_state = "running"
    /\ cfg_fragments \in {1, MaxFragments}
    /\ src_strategy \in {Original, Fixed("fixed"), Random}
    /\ evict = {}
    /\ sweep = NoSweep
    /\ snat \in BOOLEAN
    /\ sources \in { <<>>, "port" :> [ip |-> "host", port |-> "port",
                                       addrs |-> "client" :> 0] }
    /\ packets = <<>>
    /\ current = 0
    /\ elapsed = 0
    /\ recv_dropped = 0
    /\ recv_total = 0
    /\ recv_current = 0
    /\ fragsOf = [s \in Seqs |-> 0]
    /\ nread = 0
    /\ emitted = <<>>
    /\ inorder = TRUE
    /\ stale = FALSE
    /\ verdicts = NoVerdicts
    /\ recv_state = "running"
    /\ TrailerIdle
    /\ WhitelistIdle
    /\ instant = 0
    /\ MainIdle
    /\ LocksIdle

\* A message that is an IPv4/UDP packet: one datagram per interface, the counter
\* incremented, the message answered with DROP. When a socket option call fails
\* on interface `broken` the `?` returns the error from listen at that point.
SenderUdp(ip_header_len, n, failing, broken, captured, drawn) ==
    /\ send_state = "running"
    /\ evict = {}
    /\ InRange(id)
    /\ send_read < MaxMsgs
    /\ failing \subseteq Interfaces
    /\ broken \in Interfaces \cup {NoBreak}
    /\ LET fragments == FragmentsFor(n, cfg_fragments)
           visited == Visited(failing, broken)
           src_port == SrcPort(src_strategy, captured, drawn)
       IN /\ (snat /\ (src_port \notin DOMAIN sources
                        \/ DOMAIN sources[src_port].addrs = {})) => failing = {}
          /\ queued' = n
          /\ burst' = Burst(visited, ip_header_len, n, fragments,
                            failing, snat, sources, src_port)
                       \o (IF visited = broken /\ broken # NoBreak
                           THEN <<OptionFails(broken)>> ELSE <<>>)
          /\ IF visited = NumInterfaces
             THEN /\ id' = id + 1
                  /\ send_total' = send_total + 1
                  /\ send_verdicts' = [send_verdicts EXCEPT !.drop = @ + 1]
                  /\ send_state' = "running"
             ELSE /\ send_state' = "returned"
                  /\ UNCHANGED <<id, send_total, send_verdicts>>
    /\ send_read' = send_read + 1
    /\ UNCHANGED <<cfg_fragments, src_strategy, evict, sweep>>
    /\ UNCHANGED <<receiver_vars, trailer, whitelist_vars, instant, main_vars, lock_vars>>

\* A message that is an IPv4/UDP packet when the counter no longer fits the
\* sequence field: with_sequence panics while the first datagram is built,
\* before any send and before the verdict, and the Sender's thread ends.
SenderOverflow ==
    /\ send_state = "running"
    /\ evict = {}
    /\ send_read < MaxMsgs
    /\ ~InRange(id)
    /\ send_state' = "panicked"
    /\ burst' = <<>>
    /\ queued' = 0
    /\ send_read' = send_read + 1
    /\ UNCHANGED <<id, send_total, send_verdicts, cfg_fragments, src_strategy, evict,
                   sweep>>
    /\ UNCHANGED <<receiver_vars, trailer, whitelist_vars, instant, main_vars, lock_vars>>

\* A message that is not an IPv4/UDP packet: answered with DROP, nothing sent.
SenderOther ==
    /\ send_state = "running"
    /\ evict = {}
    /\ send_read < MaxMsgs
    /\ burst' = <<>>
    /\ queued' = 0
    /\ send_verdicts' = [send_verdicts EXCEPT !.drop = @ + 1]
    /\ send_read' = send_read + 1
    /\ UNCHANGED <<id, send_total, send_state, cfg_fragments, src_strategy, evict,
                   sweep>>
    /\ UNCHANGED <<receiver_vars, trailer, whitelist_vars, instant, main_vars, lock_vars>>

SenderNext ==
    \/ \E ip_header_len \in {IpHeaderLen, IpHeaderLen + 4},
          n \in {PayloadLen - 1, PayloadLen},
          broken \in Interfaces \cup {NoBreak} :
         \E failing \in SUBSET { k \in Interfaces : k < broken },
            drawn \in IF src_strategy = Random THEN {"port", "drawn"} ELSE {"port"} :
              SenderUdp(ip_header_len, n, failing, broken, "port", drawn)
    \/ SenderOverflow
    \/ SenderOther

SenderSpec == SenderInit /\ [][SenderNext]_vars

\* ------------------------------------------------- the SNAT source table
\* The Receiver and the Sender of a server in proxy mode, sharing the source
\* table: clients send through the tunnel to ports of the host behind the
\* server, the host's answers come back through the Sender.
Endpoints == {"client", "client2"}
MaxInstant == Ttl + 1

\* The test of the idle scan.
Expired(last) == instant - last > Ttl

\* Variant: an endpoint whose age is the ttl exactly is removed too.
KeptBelow(last) == instant - last < Ttl

\* The test of the retain closure.
Kept(last) == instant - last <= Ttl

\* source.addrs.write().retain(..)
Retain(source) ==
    [source EXCEPT !.addrs = [a \in {x \in DOMAIN @ : Kept(@[x])} |-> @[a]]]

\* The next datagram of the clients' stream as it reaches the receive queue,
\* unfragmented and in order, from either endpoint to either port.
SnatMsgs ==
    { [UdpMsg(nread, 1, 0) EXCEPT !.source = x[1], !.destination_port = x[2]] :
        x \in Endpoints \X Ports }

SnatInit ==
    /\ packets = <<>>
    /\ current = 0
    /\ elapsed = 0
    /\ sources = <<>>
    /\ recv_dropped = 0
    /\ recv_total = 0
    /\ recv_current = 0
    /\ snat = TRUE
    /\ fragsOf = [s \in Seqs |-> 0]
    /\ nread = 0
    /\ emitted = <<>>
    /\ inorder = TRUE
    /\ stale = FALSE
    /\ verdicts = NoVerdicts
    /\ recv_state = "running"
    /\ id = 0
    /\ burst = <<>>
    /\ queued = 0
    /\ send_read = 0
    /\ send_verdicts = NoVerdicts
    /\ send_total = 0
    /\ send_state = "running"
    /\ cfg_fragments = 1
    /\ src_strategy \in {Original, Fixed("port2")}
    /\ evict = {}
    /\ sweep = NoSweep
    /\ instant = 0
    /\ TrailerIdle
    /\ WhitelistIdle
    /\ MainIdle
    /\ LocksIdle

\* Time passes.
Elapse ==
    /\ instant < MaxInstant
    /\ instant' = instant + 1
    /\ UNCHANGED <<receiver_vars, trailer, sender_vars, whitelist_vars, main_vars, lock_vars>>

\* The Sender's queue is empty: the scan of one Source under the read lock.
\* When an endpoint's age exceeds the ttl, evict is set and the retain follows.
SweepScan(p) ==
    /\ send_state = "running"
    /\ evict = {}
    /\ p \in DOMAIN sources
    /\ \E a \in DOMAIN sources[p].addrs : Expired(sources[p].addrs[a])
    /\ evict' = {p}
    /\ sweep' = [port |-> p, scanned |-> sources[p].addrs, before |-> <<>>, done |-> FALSE]
    /\ burst' = <<>>
    /\ queued' = 0
    /\ UNCHANGED <<id, send_read, send_verdicts, send_total, send_state, cfg_fragments,
                   src_strategy>>
    /\ UNCHANGED <<receiver_vars, trailer, whitelist_vars, instant, main_vars, lock_vars>>

\* if evict: the retain under the write lock, with the ages read again.
SweepRetain(p) ==
    /\ send_state = "running"
    /\ evict = {p}
    /\ sources' = [sources EXCEPT ![p] = Retain(@)]
    /\ evict' = {}
    /\ sweep' = [sweep EXCEPT !.before = sources[p].addrs, !.done = TRUE]
    /\ UNCHANGED <<packets, current, elapsed, stats, snat, fragsOf, history, recv_state>>
    /\ UNCHANGED <<id, burst, queued, send_read, send_verdicts, send_total, send_state,
                   cfg_fragments, src_strategy>>
    /\ UNCHANGED <<trailer, whitelist_vars, instant, main_vars, lock_vars>>

\* A datagram of the host behind the server, from port `captured`, on the
\* Sender's queue.
Return(captured) ==
    /\ send_read < MaxReturns
    /\ SenderUdp(IpHeaderLen, PayloadLen, {}, NoBreak, captured, captured)

\* A datagram of a client on the Receiver's queue. While the Sender is in a
\* sweep it holds the table's read lock, and the upgrade that inserts a new
\* Source waits for it; attaching to a Source that exists does not.
Inbound(m) ==
    /\ nread < MaxInbound
    /\ evict # {} => m.destination_port \in DOMAIN sources
    /\ Listen(m)

SnatNext ==
    \/ \E m \in SnatMsgs : Inbound(m)
    \/ \E captured \in Ports : Return(captured)
    \/ \E p \in Ports : SweepScan(p)
    \/ \E p \in Ports : SweepRetain(p)
    \/ Elapse

SnatSpec == SnatInit /\ [][SnatNext]_vars

\* ------------------------------------------------------- the lock discipline
\* The SNAT path once more, one lock operation per step. A parking_lot RwLock
\* has a count of shared holders, an upgradable bit and a writer bit: a shared
\* lock is granted while the writer bit is clear; an upgradable or an exclusive
\* lock takes its bit while both bits are clear; the owner of the writer bit, a
\* writer or an upgrading thread, then waits until the shared holders have left.
CanShared(l) == l.w = "none"
CanUpgradable(l) == l.w = "none" /\ l.up = "none"
CanExclusive(l) == l.w = "none" /\ l.up = "none"
Drained(l, t) == l.w = t /\ l.readers = {}

Shared(l, t) == [l EXCEPT !.readers = @ \cup {t}]
Unshared(l, t) == [l EXCEPT !.readers = @ \ {t}]
Upgradable(l, t) == [l EXCEPT !.up = t]
Downgraded(l, t) == [l EXCEPT !.up = "none"]
Upgrade(l, t) == [l EXCEPT !.up = "none", !.w = t]
Exclusive(l, t) == [l EXCEPT !.w = t]
Released(l, t) == [l EXCEPT !.w = "none"]

\* Variant: the guard of the scan lives until the end of the loop body.
KeepScanGuard(l, t) == l

\* The guard of `source.addrs.read()` is a temporary of the inner for loop: it
\* is dropped when the loop ends, before `if evict`.
DropScanGuard(l, t) == Unshared(l, t)

\* The port every datagram of this specification is for.
SnatPort == "port"

LockInit ==
    /\ packets = <<>>
    /\ current = 0
    /\ elapsed = 0
    /\ sources = <<>>
    /\ recv_dropped = 0
    /\ recv_total = 0
    /\ recv_current = 0
    /\ snat = TRUE
    /\ fragsOf = [s \in Seqs |-> 0]
    /\ nread = 0
    /\ emitted = <<>>
    /\ inorder = TRUE
    /\ stale = FALSE
    /\ verdicts = NoVerdicts
    /\ recv_state = "running"
    /\ instant = 0
    /\ SenderIdle
    /\ TrailerIdle
    /\ WhitelistIdle
    /\ MainIdle
    /\ LocksIdle

\* What a step of the lock discipline leaves alone.
OnlyLocks ==
    /\ UNCHANGED <<packets, current, elapsed, stats, snat, fragsOf, history, recv_state>>
    /\ UNCHANGED <<trailer, sender_vars, whitelist_vars, instant, main_vars>>

\* Receiver: a datagram from endpoint addr passed the if-let chain.
RecvAccepted(addr) ==
    /\ pc["receiver"].at = "head"
    /\ pc' = [pc EXCEPT !["receiver"] = [at |-> "chain", addr |-> addr]]
    /\ UNCHANGED <<rwlocks, cursor, sources>>
    /\ OnlyLocks

\* Receiver: sources.upgradable_read()
RecvTable ==
    /\ pc["receiver"].at = "chain"
    /\ CanUpgradable(rwlocks["table"])
    /\ rwlocks' = [rwlocks EXCEPT !["table"] = Upgradable(@, "receiver")]
    /\ pc' = [pc EXCEPT !["receiver"].at = "lookup"]
    /\ UNCHANGED <<cursor, sources>>
    /\ OnlyLocks

\* Receiver: the key is in the table; attach takes addrs.upgradable_read().
RecvAttach ==
    /\ pc["receiver"].at = "lookup"
    /\ SnatPort \in DOMAIN sources
    /\ CanUpgradable(rwlocks["addrs"])
    /\ rwlocks' = [rwlocks EXCEPT !["addrs"] = Upgradable(@, "receiver")]
    /\ pc' = [pc EXCEPT !["receiver"].at = "attach"]
    /\ UNCHANGED <<cursor, sources>>
    /\ OnlyLocks

\* Receiver: the endpoint is known; its time is stored and attach returns.
RecvTouch ==
    /\ pc["receiver"].at = "attach"
    /\ pc["receiver"].addr \in DOMAIN sources[SnatPort].addrs
    /\ sources' = [sources EXCEPT ![SnatPort] = Source_attach(@, pc["receiver"].addr)]
    /\ rwlocks' = [rwlocks EXCEPT !["addrs"] = Downgraded(@, "receiver")]
    /\ pc' = [pc EXCEPT !["receiver"].at = "attached"]
    /\ UNCHANGED cursor
    /\ OnlyLocks

\* Receiver: the endpoint is new; RwLockUpgradableReadGuard::upgrade on addrs.
RecvUpgradeAddrs ==
    /\ pc["receiver"].at = "attach"
    /\ pc["receiver"].addr \notin DOMAIN sources[SnatPort].addrs
    /\ rwlocks' = [rwlocks EXCEPT !["addrs"] = Upgrade(@, "receiver")]
    /\ pc' = [pc EXCEPT !["receiver"].at = "insert_addr"]
    /\ UNCHANGED <<cursor, sources>>
    /\ OnlyLocks

\* Receiver: the upgrade is through; the endpoint is inserted, attach returns.
RecvInsertAddr ==
    /\ pc["receiver"].at = "insert_addr"
    /\ Drained(rwlocks["addrs"], "receiver")
    /\ sources' = [sources EXCEPT ![SnatPort] = Source_attach(@, pc["receiver"].addr)]
    /\ rwlocks' = [rwlocks EXCEPT !["addrs"] = Released(@, "receiver")]
    /\ pc' = [pc EXCEPT !["receiver"].at = "attached"]
    /\ UNCHANGED cursor
    /\ OnlyLocks

\* Receiver: the key is not in the table; upgrade of the table's guard.
RecvUpgradeTable ==
    /\ pc["receiver"].at = "lookup"
    /\ SnatPort \notin DOMAIN sources
    /\ rwlocks' = [rwlocks EXCEPT !["table"] = Upgrade(@, "receiver")]
    /\ pc' = [pc EXCEPT !["receiver"].at = "insert_source"]
    /\ UNCHANGED <<cursor, sources>>
    /\ OnlyLocks

\* Receiver: the upgrade is through; Source::new, attach on the new Source,
\* whose addrs no other thread can reach yet, and insert.
RecvInsertSource ==
    /\ pc["receiver"].at = "insert_source"
    /\ Drained(rwlocks["table"], "receiver")
    /\ sources' = (SnatPort :> Source_attach(Source_new("host", SnatPort),
                                              pc["receiver"].addr)) @@ sources
    /\ pc' = [pc EXCEPT !["receiver"].at = "attached"]
    /\ UNCHANGED <<rwlocks, cursor>>
    /\ OnlyLocks

\* Receiver: the end of the SNAT block drops the table's guard, upgradable or
\* upgraded.
RecvLeaveBlock ==
    /\ pc["receiver"].at = "attached"
    /\ rwlocks' = [rwlocks EXCEPT !["table"] =
                     IF @.w = "receiver" THEN Released(@, "receiver")
                     ELSE Downgraded(@, "receiver")]
    /\ pc' = [pc EXCEPT !["receiver"].at = "drain"]
    /\ UNCHANGED <<cursor, sources>>
    /\ OnlyLocks

\* Receiver: the entry at current is absent or incomplete, nothing to send.
RecvNoDrain ==
    /\ pc["receiver"].at = "drain"
    /\ pc' = [pc EXCEPT !["receiver"] = At("head")]
    /\ UNCHANGED <<rwlocks, cursor, sources>>
    /\ OnlyLocks

\* Receiver: the entry at current is completed, the drain loop's body runs.
RecvDrain ==
    /\ pc["receiver"].at = "drain"
    /\ pc' = [pc EXCEPT !["receiver"].at = "drain_table"]
    /\ UNCHANGED <<rwlocks, cursor, sources>>
    /\ OnlyLocks

\* Receiver, drain loop: sources.read()
RecvDrainTable ==
    /\ pc["receiver"].at = "drain_table"
    /\ CanShared(rwlocks["table"])
    /\ rwlocks' = [rwlocks EXCEPT !["table"] = Shared(@, "receiver")]
    /\ pc' = [pc EXCEPT !["receiver"].at = "drain_get"]
    /\ UNCHANGED <<cursor, sources>>
    /\ OnlyLocks

\* Receiver, drain loop: src.socket.read()
RecvDrainSocket ==
    /\ pc["receiver"].at = "drain_get"
    /\ SnatPort \in DOMAIN sources
    /\ CanShared(rwlocks["socket"])
    /\ rwlocks' = [rwlocks EXCEPT !["socket"] = Shared(@, "receiver")]
    /\ pc' = [pc EXCEPT !["receiver"].at = "drain_send"]
    /\ UNCHANGED <<cursor, sources>>
    /\ OnlyLocks

\* Receiver, drain loop: send_to, then both guards are dropped.
RecvDrainSend ==
    /\ pc["receiver"].at = "drain_send"
    /\ rwlocks' = [rwlocks EXCEPT !["socket"] = Unshared(@, "receiver"),
                                  !["table"] = Unshared(@, "receiver")]
    /\ pc' = [pc EXCEPT !["receiver"] = At("head")]
    /\ UNCHANGED <<cursor, sources>>
    /\ OnlyLocks

\* Sender: queue.recv() would block.
SendWouldBlock ==
    /\ pc["sender"].at = "head"
    /\ pc' = [pc EXCEPT !["sender"].at = "idle"]
    /\ UNCHANGED <<rwlocks, cursor, sources>>
    /\ OnlyLocks

\* Sender, queue empty: sources.read() for the loop over the Sources.
SendSweepTable ==
    /\ pc["sender"].at = "idle"
    /\ CanShared(rwlocks["table"])
    /\ rwlocks' = [rwlocks EXCEPT !["table"] = Shared(@, "sender")]
    /\ pc' = [pc EXCEPT !["sender"].at = "sweep"]
    /\ UNCHANGED <<cursor, sources>>
    /\ OnlyLocks

\* Sender, sweep: source.addrs.read() for the scan.
SendScan ==
    /\ pc["sender"].at = "sweep"
    /\ SnatPort \in DOMAIN sources
    /\ CanShared(rwlocks["addrs"])
    /\ rwlocks' = [rwlocks EXCEPT !["addrs"] = Shared(@, "sender")]
    /\ pc' = [pc EXCEPT !["sender"].at = "scan"]
    /\ UNCHANGED <<cursor, sources>>
    /\ OnlyLocks

\* Sender, sweep: the scan ends with evict set or not.
SendScanned ==
    /\ pc["sender"].at = "scan"
    /\ rwlocks' = [rwlocks EXCEPT !["addrs"] = DropScanGuard(@, "sender")]
    /\ pc' = [pc EXCEPT !["sender"].at =
                IF \E a \in DOMAIN sources[SnatPort].addrs :
                      Expired(sources[SnatPort].addrs[a])
                THEN "evict" ELSE "swept"]
    /\ UNCHANGED <<cursor, sources>>
    /\ OnlyLocks

\* Sender, sweep: source.addrs.write() takes the writer bit.
SendRetainLock ==
    /\ pc["sender"].at = "evict"
    /\ CanExclusive(rwlocks["addrs"])
    /\ rwlocks' = [rwlocks EXCEPT !["addrs"] = Exclusive(@, "sender")]
    /\ pc' = [pc EXCEPT !["sender"].at = "retain"]
    /\ UNCHANGED <<cursor, sources>>
    /\ OnlyLocks

\* Sender, sweep: the write lock is held; retain, and the guard is dropped.
SendRetain ==
    /\ pc["sender"].at = "retain"
    /\ Drained(rwlocks["addrs"], "sender")
    /\ sources' = [sources EXCEPT ![SnatPort] = Retain(@)]
    /\ rwlocks' = [rwlocks EXCEPT !["addrs"] = Released(@, "sender")]
    /\ pc' = [pc EXCEPT !["sender"].at = "swept"]
    /\ UNCHANGED cursor
    /\ OnlyLocks

\* Sender, sweep: the loop over the Sources ends, the table's guard is dropped.
SendSwept ==
    /\ pc["sender"].at \in {"sweep", "swept"}
    /\ pc["sender"].at = "sweep" => SnatPort \notin DOMAIN sources
    /\ rwlocks' = [rwlocks EXCEPT !["table"] = Unshared(@, "sender")]
    /\ pc' = [pc EXCEPT !["sender"].at = "head"]
    /\ UNCHANGED <<cursor, sources>>
    /\ OnlyLocks

\* Sender: a UDP message was read; the loop over the interfaces begins.
SendMessage ==
    /\ pc["sender"].at = "head"
    /\ pc' = [pc EXCEPT !["sender"].at = "interface"]
    /\ cursor' = 0
    /\ UNCHANGED <<rwlocks, sources>>
    /\ OnlyLocks

\* Sender: interface.socket.write()
SendInterface ==
    /\ pc["sender"].at = "interface"
    /\ CanExclusive(rwlocks["interface"])
    /\ rwlocks' = [rwlocks EXCEPT !["interface"] = Exclusive(@, "sender")]
    /\ pc' = [pc EXCEPT !["sender"].at = "table"]
    /\ UNCHANGED <<cursor, sources>>
    /\ OnlyLocks

\* Sender: sources.read() in the condition of the if-let.
SendTable ==
    /\ pc["sender"].at = "table"
    /\ Drained(rwlocks["interface"], "sender")
    /\ CanShared(rwlocks["table"])
    /\ rwlocks' = [rwlocks EXCEPT !["table"] = Shared(@, "sender")]
    /\ pc' = [pc EXCEPT !["sender"].at = "get"]
    /\ UNCHANGED <<cursor, sources>>
    /\ OnlyLocks

\* Sender: a Source is found; source.addrs.read()
SendAddrs ==
    /\ pc["sender"].at = "get"
    /\ SnatPort \in DOMAIN sources
    /\ CanShared(rwlocks["addrs"])
    /\ rwlocks' = [rwlocks EXCEPT !["addrs"] = Shared(@, "sender")]
    /\ pc' = [pc EXCEPT !["sender"].at = "send"]
    /\ UNCHANGED <<cursor, sources>>
    /\ OnlyLocks

\* Sender: the sends to the endpoints are done, or no Source was found: the
\* guards of addrs and of the table are dropped, then the interface's, and the
\* loop goes to the next interface.
SendNext ==
    /\ pc["sender"].at \in {"get", "send"}
    /\ pc["sender"].at = "get" => SnatPort \notin DOMAIN sources
    /\ rwlocks' = [rwlocks EXCEPT !["addrs"] = Unshared(@, "sender"),
                                  !["table"] = Unshared(@, "sender"),
                                  !["interface"] = Released(@, "sender")]
    /\ cursor' = IF cursor + 1 < NumInterfaces THEN cursor + 1 ELSE 0
    /\ pc' = [pc EXCEPT !["sender"].at =
                IF cursor + 1 < NumInterfaces THEN "interface" ELSE "head"]
    /\ UNCHANGED sources
    /\ OnlyLocks

LockNext ==
    \/ \E addr \in Endpoints : RecvAccepted(addr)
    \/ RecvTable
    \/ RecvAttach
    \/ RecvTouch
    \/ RecvUpgradeAddrs
    \/ RecvInsertAddr
    \/ RecvUpgradeTable
    \/ RecvInsertSource
    \/ RecvLeaveBlock
    \/ RecvNoDrain
    \/ RecvDrain
    \/ RecvDrainTable
    \/ RecvDrainSocket
    \/ RecvDrainSend
    \/ SendWouldBlock
    \/ SendSweepTable
    \/ SendScan
    \/ SendScanned
    \/ SendRetainLock
    \/ SendRetain
    \/ SendSwept
    \/ SendMessage
    \/ SendInterface
    \/ SendTable
    \/ SendAddrs
    \/ SendNext
    \/ Elapse

LockSpec == LockInit /\ [][LockNext]_vars

\* The lock a thread is asking for at its position, and whether the request
\* has to wait.
Waits(t) ==
    LET at == pc[t].at
    IN \/ t = "receiver" /\ at = "chain" /\ ~CanUpgradable(rwlocks["table"])
       \/ t = "receiver" /\ at = "lookup" /\ SnatPort \in DOMAIN sources
            /\ ~CanUpgradable(rwlocks["addrs"])
       \/ t = "receiver" /\ at = "insert_addr" /\ ~Drained(rwlocks["addrs"], t)
       \/ t = "receiver" /\ at = "insert_source" /\ ~Drained(rwlocks["table"], t)
       \/ t = "receiver" /\ at = "drain_table" /\ ~CanShared(rwlocks["table"])
       \/ t = "receiver" /\ at = "drain_get" /\ ~CanShared(rwlocks["socket"])
       \/ t = "sender" /\ at = "idle" /\ ~CanShared(rwlocks["table"])
       \/ t = "sender" /\ at = "sweep" /\ SnatPort \in DOMAIN sources
            /\ ~CanShared(rwlocks["addrs"])
       \/ t = "sender" /\ at = "evict" /\ ~CanExclusive(rwlocks["addrs"])
       \/ t = "sender" /\ at = "retain" /\ ~Drained(rwlocks["addrs"], t)
       \/ t = "sender" /\ at = "interface" /\ ~CanExclusive(rwlocks["interface"])
       \/ t = "sender" /\ at = "table" /\ ~CanShared(rwlocks["table"])
       \/ t = "sender" /\ at = "get" /\ SnatPort \in DOMAIN sources
            /\ ~CanShared(rwlocks["addrs"])

\* ------------------------------------------------------ start and shutdown
\* iptables(&configuration): the rules a component installs before its loop.
RulesOf(c) == { r \in Rules : r[1] = c /\ c \in {"receiver", "sender"} }

\* CommandGuard::call for every rule of rs: the command is executed.
Install(tbl, rs) ==
    [ r \in Rules |-> IF r \in rs THEN [tbl[r] EXCEPT !.added = @ + 1] ELSE tbl[r] ]

\* Variant: the guards are let go without their cleanup.
Forget(tbl, held) == tbl

\* Drop of the Vec<CommandGuard> when listen returns or unwinds: every guard
\* takes its cleanup and runs the -D command.
Cleanup(tbl, held) ==
    [ r \in Rules |-> IF r \in held THEN [tbl[r] EXCEPT !.deleted = @ + 1] ELSE tbl[r] ]

\* Variant: the thread leaves the flag as it is.
Kept_flag(flag) == flag

\* The thread's store into running after listen has returned.
Stored(flag) == FALSE

ShutdownInit ==
    /\ running = TRUE
    /\ threads \in { [c \in Components |-> IF c = "status" THEN st ELSE "spawned"] :
                        st \in {"spawned", "absent"} }
    /\ guards = [c \in Components |-> {}]
    /\ table = [r \in Rules |-> [added |-> 0, deleted |-> 0]]
    /\ results = <<>>
    /\ instant = 0
    /\ ReceiverIdle
    /\ TrailerIdle
    /\ SenderIdle
    /\ WhitelistIdle
    /\ LocksIdle

\* A listen function, its guards dropped, leaves its thread in state `how`.
Leave(c, how) ==
    /\ threads' = [threads EXCEPT ![c] = how]
    /\ table' = Cleanup(table, guards[c])
    /\ guards' = [guards EXCEPT ![c] = {}]
    /\ UNCHANGED <<running, results>>
    /\ UNCHANGED <<receiver_vars, trailer, sender_vars, whitelist_vars, instant, lock_vars>>

\* The thread calls listen: the rules are installed, the loop is entered.
Start(c) ==
    /\ threads[c] = "spawned"
    /\ threads' = [threads EXCEPT ![c] = "listen"]
    /\ table' = Install(table, RulesOf(c))
    /\ guards' = [guards EXCEPT ![c] = RulesOf(c)]
    /\ UNCHANGED <<running, results>>
    /\ UNCHANGED <<receiver_vars, trailer, sender_vars, whitelist_vars, instant, lock_vars>>

\* The admission server accepts a tag from ip: the rule is installed and its
\* guard pushed.
Admit(ip) ==
    /\ threads["whitelist"] = "listen"
    /\ running
    /\ <<"whitelist", ip>> \notin guards["whitelist"]
    /\ table' = Install(table, {<<"whitelist", ip>>})
    /\ guards' = [guards EXCEPT !["whitelist"] = @ \cup {<<"whitelist", ip>>}]
    /\ UNCHANGED <<running, threads, results>>
    /\ UNCHANGED <<receiver_vars, trailer, sender_vars, whitelist_vars, instant, lock_vars>>

\* ctrlc's handler.
CtrlC ==
    /\ running
    /\ running' = FALSE
    /\ UNCHANGED <<threads, guards, table, results>>
    /\ UNCHANGED <<receiver_vars, trailer, sender_vars, whitelist_vars, instant, lock_vars>>

\* while running.load(): the flag is false, listen returns Ok(()).
Stop(c) ==
    /\ threads[c] = "listen"
    /\ ~running
    /\ Leave(c, "ok")

\* queue.recv() returns an error that is not WouldBlock: break, Ok(()).
ReadError(c) ==
    /\ c \in {"receiver", "sender"}
    /\ threads[c] = "listen"
    /\ Leave(c, "ok")

\* A `?` in listen returns an error: opening or binding the queue or the
\* socket, a verdict, a socket option or a send.
Fail(c) ==
    /\ c # "status"
    /\ threads[c] = "listen"
    /\ Leave(c, "err")

\* listen panics: the thread unwinds, dropping the guards, and ends without
\* the send and the store that follow the call.
Panic(c) ==
    /\ c # "status"
    /\ threads[c] = "listen"
    /\ Leave(c, "panicked")

\* After listen: the result is sent on the channel and running is stored.
Finish(c) ==
    /\ threads[c] \in {"ok", "err"}
    /\ results' = Append(results, <<c, threads[c]>>)
    /\ running' = Stored(running)
    /\ threads' = [threads EXCEPT ![c] = "done"]
    /\ UNCHANGED <<guards, table>>
    /\ UNCHANGED <<receiver_vars, trailer, sender_vars, whitelist_vars, instant, lock_vars>>

ShutdownNext ==
    \/ \E c \in Components : Start(c)
    \/ \E ip \in 1..NumSources : Admit(ip)
    \/ CtrlC
    \/ \E c \in Components : Stop(c)
    \/ \E c \in Components : ReadError(c)
    \/ \E c \in Components : Fail(c)
    \/ \E c \in Components : Panic(c)
    \/ \E c \in Components : Finish(c)

\* Every thread is scheduled: it enters listen, reaches the head of its loop
\* again after a bounded sleep, and runs the statements after listen.
ShutdownSpec ==
    /\ ShutdownInit
    /\ [][ShutdownNext]_vars
    /\ \A c \in Components :
          WF_vars(Start(c)) /\ WF_vars(Stop(c)) /\ WF_vars(Finish(c))

\* --------------------------------------------------- the admission server
\* configuration.secret, and a secret that differs from it.
Secret == "secret"
Secrets == {Secret, "other"}

SourceIps == 1..NumSources

\* The second the server starts in; the clock counts seconds from an epoch that
\* lies more than a window before the start.
StartTime == WINDOW_SIZE + 1

\* The tag HMAC-SHA256(key, ascii(t)): it verifies against a key and a second
\* exactly when it was computed from them.
Tag(key, t) == [key |-> key, t |-> t]
verify_slice(key, t, tag) == tag = Tag(key, t)

\* The datagrams that reach the admission port at second now, from any source:
\* a tag computed with either secret, or a tag of the server's secret with one
\* byte less or one byte more, for a second at or next to an end of the window.
Datagrams(clock) ==
    { [len |-> x[1], src |-> x[2], tag |-> Tag(x[3], x[4])] :
        x \in { y \in {TagLen - 1, TagLen, TagLen + 1} \X SourceIps \X Secrets
                      \X { clock + 1, clock,
                           clock - (WINDOW_SIZE - 1), clock - WINDOW_SIZE } :
                  y[1] = TagLen \/ y[3] = Secret } }

\* socket.recv_from(&mut buf) with a 32-byte buffer: the number of bytes read.
Amt(d) == IF d.len > TagLen THEN TagLen ELSE d.len

\* Variant: one more second tried.
OffsetsInclusive == 0..WINDOW_SIZE

\* for i in 0..WINDOW_SIZE
Offsets == 0..(WINDOW_SIZE - 1)

\* Variant: a timestamp equal to the newest accepted one passes.
NotOlder(second, min) == second >= min

\* The test an accepted tag's second has to pass.
Newer(second, min) == second > min

\* The loop over the window. verify_slice succeeds for one second at most, the
\* one the tag was computed for, so the body of the loop takes effect at the
\* offset of that second alone: when it is newer than minimum it becomes the
\* minimum, a rule for the source is installed and the source is pushed to the
\* whitelist.
Window(clock, d, st) ==
    LET hits == { i \in Offsets : verify_slice(Secret, clock - i, d.tag) }
    IN IF hits = {} THEN st
       ELSE LET second == clock - Min(hits)
            IN IF Newer(second, st.minimum)
               THEN [ minimum |-> second,
                      rules |-> Append(st.rules, d.src),
                      whitelisted |-> Append(st.whitelisted, d.src),
                      accepted |-> Append(st.accepted, second) ]
               ELSE st

\* Variant: no source is taken for whitelisted.
IsWhitelistedNever(list, src) == FALSE

\* whitelisted.iter().any(|&source| source == src.ip())
IsWhitelisted(list, src) == \E k \in DOMAIN list : list[k] = src

WhitelistInit ==
    /\ now = StartTime
    /\ datagram = NoDatagram
    /\ minimum = StartTime
    /\ whitelisted = <<>>
    /\ rules = <<>>
    /\ accepted = <<>>
    /\ inflight = {}
    /\ beaconed = 0
    /\ ReceiverIdle
    /\ TrailerIdle
    /\ SenderIdle
    /\ instant = 0
    /\ MainIdle
    /\ LocksIdle

\* The seconds in which the server loop is observed.
ObservedSeconds ==
    { StartTime + k * WINDOW_SIZE + j : k \in 0..1, j \in 0..MaxSlack }

\* Time passes between two iterations of the server loop.
Tick(second) ==
    /\ second > now
    /\ now' = second
    /\ UNCHANGED <<datagram, minimum, whitelisted, rules, accepted, inflight, beaconed>>
    /\ UNCHANGED <<receiver_vars, trailer, sender_vars, instant, main_vars, lock_vars>>

\* One iteration of the server loop that reads datagram d.
Serve(d) ==
    /\ LET st == [ minimum |-> minimum, rules |-> rules, whitelisted |-> whitelisted,
                   accepted |-> accepted ]
           after == IF Amt(d) = TagLen /\ ~IsWhitelisted(whitelisted, d.src)
                    THEN Window(now, d, st)
                    ELSE st
       IN /\ datagram' = d
          /\ minimum' = after.minimum
          /\ rules' = after.rules
          /\ whitelisted' = after.whitelisted
          /\ accepted' = after.accepted
    /\ UNCHANGED now
    /\ UNCHANGED <<receiver_vars, trailer, sender_vars, instant, main_vars, lock_vars>>

\* The iteration on a datagram of any sender.
Receive(d) ==
    /\ Serve(d)
    /\ UNCHANGED <<inflight, beaconed>>

WhitelistNext ==
    \/ \E second \in ObservedSeconds : Tick(second)
    \/ \E d \in Datagrams(now) : Receive(d)

WhitelistSpec == WhitelistInit /\ [][WhitelistNext]_vars

\* ------------------------------------------------- the admission client
\* The server and one client with an interface for every source IP, clocks in
\* agreement, the same secret, no datagram lost. The client starts in the
\* server's start second or in the next and is observed until LastSecond: a
\* server that is a round behind can pass over the tags of every other second,
\* so two rounds are allowed for each source.
LastSecond == StartTime + 2 * NumSources

\* Variant: the client sends from its first interface only.
BeaconsFirstOnly(second) ==
    { [len |-> TagLen, src |-> Min(SourceIps), tag |-> Tag(Secret, second)] }

\* The datagrams of one round of the client: the tag of the second, from every
\* interface.
Beacons(second) ==
    { [len |-> TagLen, src |-> ip, tag |-> Tag(Secret, second)] : ip \in SourceIps }

BeaconInit ==
    /\ now = StartTime
    /\ datagram = NoDatagram
    /\ minimum = StartTime
    /\ whitelisted = <<>>
    /\ rules = <<>>
    /\ accepted = <<>>
    /\ inflight = {}
    /\ beaconed \in {StartTime - 1, StartTime}
    /\ ReceiverIdle
    /\ TrailerIdle
    /\ SenderIdle
    /\ instant = 0
    /\ MainIdle
    /\ LocksIdle

\* One iteration of the client loop: now.as_secs() is read once, a tag of it is
\* sent from every interface, and the client sleeps for a second.
Beacon ==
    /\ beaconed < now
    /\ inflight' = inflight \cup Beacons(now)
    /\ beaconed' = now
    /\ UNCHANGED <<now, datagram, minimum, whitelisted, rules, accepted>>
    /\ UNCHANGED <<receiver_vars, trailer, sender_vars, instant, main_vars, lock_vars>>

\* A second passes. The client has made its round of this second; the server,
\* which sleeps for a second when it finds nothing to read, is at most that far
\* behind: no beacon older than the second that ends is still unread.
Second ==
    /\ now < LastSecond
    /\ beaconed = now
    /\ \A d \in inflight : d.tag.t = now
    /\ now' = now + 1
    /\ UNCHANGED <<datagram, minimum, whitelisted, rules, accepted, inflight, beaconed>>
    /\ UNCHANGED <<receiver_vars, trailer, sender_vars, instant, main_vars, lock_vars>>

\* The server reads one of the beacons that wait at its socket, in any order.
Deliver(d) ==
    /\ d \in inflight
    /\ Serve(d)
    /\ inflight' = inflight \ {d}
    /\ UNCHANGED beaconed

BeaconNext ==
    \/ Beacon
    \/ Second
    \/ \E d \in inflight : Deliver(d)

\* The client's loop and the server's loop keep running and time passes.
BeaconSpec ==
    /\ BeaconInit
    /\ [][BeaconNext]_vars
    /\ WF_vars(Beacon)
    /\ WF_vars(Second)
    /\ WF_vars(\E d \in inflight : Deliver(d))

\* ------------------------------------------------------------- claims
EmittedIds == { emitted[i].id : i \in DOMAIN emitted }

\* C1: when the packets 0, 1, ..., N-1 arrive unfragmented, in that order and
\* less than the timeout apart, every one of them has been emitted, once and in
\* that order, at the step it arrived; recv_current is N and recv_dropped is 0.
C1_InOrderDelivery ==
    inorder =>
        /\ Len(emitted) = nread
        /\ \A i \in 1..Len(emitted) :
              emitted[i].id = i - 1 /\ emitted[i].data = Orig(i - 1)
        /\ recv_current = nread
        /\ recv_dropped = 0

\* C2: no sequence number is emitted more than once, whatever copies arrive.
C2_EmittedAtMostOnce ==
    \A i, j \in DOMAIN emitted : emitted[i].id = emitted[j].id => i = j

\* C3: the sequence of each emitted packet is greater than or equal to the
\* sequence of every packet emitted before it.
C3_NonDecreasing ==
    \A i, j \in DOMAIN emitted : i < j => emitted[i].id <= emitted[j].id

\* C3: two packets were emitted across a gap the timeout rule skipped, while a
\* packet is still buffered.
C3_Witness ==
    /\ Len(emitted) >= 2
    /\ emitted[1].id < emitted[Len(emitted)].id
    /\ recv_dropped > 0
    /\ DOMAIN packets # {}

C5_Scenario ==
    /\ Len(emitted) = 1
    /\ emitted[1].id = 0
    /\ fragsOf[1] = 0
    /\ 0 \notin DOMAIN packets
    /\ 2 \in DOMAIN packets
    /\ packets[2].completed

\* C5 as claimed: once the timeout has passed, an iteration of the loop advances
\* current to 2 and emits P2 even when no packet is on the queue.
C5_TimeAlone ==
    [][ (C5_Scenario /\ elapsed > Timeout /\ WouldBlock)
            => (current' >= 2 /\ 2 \in { emitted'[i].id : i \in DOMAIN emitted' }) ]_vars

\* C5 as amended: once the timeout has passed, the iteration that reads the next
\* valid packet with a sequence of 2 or more moves current to 2 and emits P2;
\* an iteration that finds the queue empty leaves current, the buffer and the
\* output as they are.
C5_NextPacketAdvances ==
    [][ /\ \A m \in UdpMsgs :
            (C5_Scenario /\ elapsed > Timeout /\ m.sequence >= 2 /\ Listen(m))
                => /\ current' >= 2
                   /\ Len(emitted') = 2
                   /\ emitted'[2].id = 2
                   /\ 2 \notin DOMAIN packets'
        /\ (C5_Scenario /\ WouldBlock) => UNCHANGED <<packets, current, emitted>> ]_vars

\* C5: P2 was emitted after P0 by the timeout rule, sequence 1 never seen.
C5_Witness ==
    /\ Len(emitted) = 2
    /\ emitted[1].id = 0
    /\ emitted[2].id = 2
    /\ fragsOf[1] = 0
    /\ current >= 2
    /\ recv_dropped > 0

\* C6: when the timeout has passed and the entry at the head of the buffer is
\* incomplete, an iteration on a valid packet of a later sequence removes that
\* entry and moves current past its sequence.
C6_IncompleteHeadDiscarded ==
    [][ \A m \in UdpMsgs :
          ( /\ DOMAIN packets # {}
            /\ ~packets[FirstKey(packets)].completed
            /\ elapsed > Timeout
            /\ m.sequence > FirstKey(packets)
            /\ Listen(m) )
          => /\ FirstKey(packets) \notin DOMAIN packets'
             /\ current' > FirstKey(packets) ]_vars

\* Messages that were dropped and counted before they reached the buffer.
Rejected == nread - recv_total

\* C7: what the timeout rule adds to recv_dropped when it skips from the last
\* emitted sequence a to the next emitted sequence b is b-a-1, the number of
\* sequence numbers in between, which are never emitted: once P0 was emitted
\* first, recv_dropped counts the rejected messages and the sequence numbers below
\* current that were not emitted; after P0, a lost sequence 1 and P2, with no
\* rejected message, recv_dropped is 1. (A loop that has ended on an error is
\* left out: its last message is in no counter.)
C7_GapAccounting ==
    /\ (recv_state = "running" /\ Len(emitted) > 0 /\ emitted[1].id = 0)
          => recv_dropped
               = Rejected + Cardinality({ s \in 0..(current - 1) : s \notin EmittedIds })
    /\ ( /\ Len(emitted) = 2
         /\ emitted[1].id = 0
         /\ emitted[2].id = 2
         /\ fragsOf[1] = 0
         /\ Rejected = 0 )
          => recv_dropped = 1

\* C8: the first valid packet, whatever its sequence S, is emitted in the step
\* that reads it when it is unfragmented, current becomes S+1, and recv_dropped
\* does not grow.
C8_Bootstrap ==
    [][ \A m \in UdpMsgs :
          (recv_total = 0 /\ current = 0 /\ Listen(m))
          => /\ m.fragments = 1 =>
                   /\ Len(emitted') = 1
                   /\ emitted'[1].id = m.sequence
                   /\ current' = m.sequence + 1
             /\ recv_dropped' = recv_dropped ]_vars

\* C9: a second copy of an unfragmented packet that was already emitted is a
\* past-sequence packet (sequence < current): it is not emitted again and
\* recv_dropped does not grow.
C9_DuplicateIsPastSequence ==
    [][ \A m \in UdpMsgs :
          (m.fragments = 1 /\ m.sequence \in EmittedIds /\ (Listen(m) \/ Reject(m)))
          => /\ m.sequence < current
             /\ emitted' = emitted
             /\ recv_dropped' = recv_dropped ]_vars

RECURSIVE InIndexOrder(_, _, _)
InIndexOrder(s, f, i) ==
    IF i >= f THEN <<>> ELSE FragmentData(s, f, i) \o InIndexOrder(s, f, i + 1)

RECURSIVE SumOfLengths(_, _, _)
SumOfLengths(s, f, i) ==
    IF i >= f THEN 0 ELSE Len(FragmentData(s, f, i)) + SumOfLengths(s, f, i + 1)

\* C10: a fragmented packet is emitted once, with all of its fragments: its UDP
\* payload is the fragments' payloads in index order and its UDP length counts
\* the header and the sum of their lengths.
C10_Reassembly ==
    \A i \in DOMAIN emitted :
        emitted[i].fragments >= 2 =>
            /\ emitted[i].data = InIndexOrder(emitted[i].id, emitted[i].fragments, 0)
            /\ emitted[i].udp_length
                 = UDP_HEADER + SumOfLengths(emitted[i].id, emitted[i].fragments, 0)
            /\ \A j \in DOMAIN emitted : emitted[j].id = emitted[i].id => j = i

\* C11: the trailer the Receiver decodes is the (fragments, sequence, fragment)
\* the Sender built it from, for every F in 1..7, i below F and every sequence
\* of the 26-bit field that is tried; the four bytes are bytes.
C11_TrailerRoundTrip ==
    /\ trailer.stage \in {"sent", "read"} =>
          /\ Len(trailer.bytes) = TrailerLen
          /\ \A k \in 1..Len(trailer.bytes) : trailer.bytes[k] \in 0..255
    /\ trailer.stage = "read" => trailer.decoded = trailer.extra

\* C11: the trailer with the largest value of every field was decoded.
C11_Witness ==
    /\ trailer.stage = "read"
    /\ trailer.extra = [fragments |-> 7, sequence |-> 2 ^ SequenceBits - 1, fragment |-> 6]
    /\ trailer.decoded = trailer.extra

\* C12: an unfragmented packet whose UDP length was L (header and payload) and
\* whose IP header has H bytes reaches the Receiver with UDP length L+4 and IP
\* total length H+L+4, and every unfragmented packet the Receiver emits has UDP
\* length L and IP total length H+L.
C12_LengthRoundTrip ==
    [][ \A m \in UdpMsgs :
          (m.fragments = 1 /\ Listen(m))
          => LET L == UDP_HEADER + PayloadLen
             IN /\ m.udp_length = L + 4
                /\ m.total_length = IpHeaderLenOf(m.sequence) + L + 4
                /\ m.len = m.total_length
                /\ \A i \in DOMAIN emitted' :
                      emitted'[i].fragments = 1
                      => /\ emitted'[i].udp_length = L
                         /\ emitted'[i].total_length = IpHeaderLenOf(emitted'[i].id) + L
                         /\ Len(emitted'[i].data) = L - UDP_HEADER ]_vars

\* C12: unfragmented packets with a 20-byte and with a 24-byte IP header were
\* emitted.
C12_Witness ==
    /\ \E i \in DOMAIN emitted :
          emitted[i].fragments = 1 /\ emitted[i].total_length = 20 + UDP_HEADER + PayloadLen
    /\ \E i \in DOMAIN emitted :
          emitted[i].fragments = 1 /\ emitted[i].total_length = 24 + UDP_HEADER + PayloadLen

\* C13: every message the Sender has read got exactly one verdict, a DROP, and
\* none got an ACCEPT, whatever failed while its datagrams were sent.
C13_SenderAlwaysDrops ==
    /\ send_verdicts.drop = send_read
    /\ send_verdicts.accept = 0

\* C14: when send_to fails on some interface and no other call fails, the send
\* is still attempted on every interface, the failed calls among them, the
\* sequence counter grows by one and the loop keeps running.
C14_SendFailureDoesNotAbort ==
    [][ ( /\ send_read' = send_read + 1
          /\ \E j \in DOMAIN burst' : burst'[j].call = "send_to" /\ ~burst'[j].ok
          /\ \A j \in DOMAIN burst' : burst'[j].call # "send_to" => burst'[j].ok )
        => /\ { burst'[j].interface : j \in DOMAIN burst' } = Interfaces
           /\ \A j \in DOMAIN burst' :
                  from_bytes(burst'[j].packet.extra).sequence = id
           /\ id' = id + 1
           /\ send_total' = send_total + 1
           /\ send_verdicts' = [send_verdicts EXCEPT !.drop = @ + 1]
           /\ send_state' = "running" ]_vars

\* C14: the send on the first interface failed, the one on the last interface
\* was made and succeeded, and the next logical packet was sent after that.
C14_Witness ==
    /\ send_state = "running"
    /\ id >= 2
    /\ Len(burst) >= NumInterfaces
    /\ ~burst[1].ok
    /\ burst[Len(burst)].ok
    /\ burst[Len(burst)].interface = NumInterfaces - 1

\* C15: when the SNAT send of the drained packet with sequence s fails, the
\* entry s leaves the buffer, current moves past s, the packet is not sent
\* again and the loop keeps running.
C15_SendFailureConsumesPosition ==
    [][ \A m \in UdpMsgs :
          SendFails(m)
          => LET s == Process(packets, current, elapsed, sources, snat, m).advanced
             IN /\ s \notin DOMAIN packets'
                /\ current' > s
                /\ emitted' = emitted
                /\ recv_state' = "running" ]_vars

\* C16: while the loop runs, in forward mode one message was ACCEPTed for each
\* logical packet emitted and every other message that is not held in a buffer
\* entry was DROPped; in proxy mode no message was ACCEPTed and every message
\* was DROPped.
C16_ReceiverVerdicts ==
    recv_state = "running" =>
        /\ ~snat => /\ verdicts.accept = Cardinality(EmittedIds)
                    /\ verdicts.accept + verdicts.drop + Cardinality(DOMAIN packets) = nread
        /\ snat => /\ verdicts.accept = 0
                   /\ verdicts.drop = nread

\* C17: a message shorter than 32 bytes, of 28 to 31 bytes too, is answered with
\* DROP and counted in recv_dropped; current and the buffer stay as they are and
\* the loop goes on.
C17_UndersizedDropped ==
    [][ (Short \/ \E m \in RuntMsgs : Truncated(m))
          => /\ verdicts' = [verdicts EXCEPT !.drop = @ + 1]
             /\ recv_dropped' = recv_dropped + 1
             /\ UNCHANGED <<packets, current>>
             /\ recv_state' = "running" ]_vars

\* C18: the timestamps the server has accepted are strictly increasing, over
\* all source IPs, and a tag for a second that is not newer than an accepted
\* one changes nothing, from a source that is not whitelisted either.
C18_ReplayProtection ==
    [][ /\ \A i, j \in DOMAIN accepted' : i < j => accepted'[i] < accepted'[j]
        /\ ( /\ now' = now
             /\ ~\E k \in DOMAIN whitelisted : whitelisted[k] = datagram'.src
             /\ \E k \in DOMAIN accepted : datagram'.tag.t <= accepted[k] )
           => UNCHANGED <<minimum, whitelisted, rules, accepted>> ]_vars

\* C18: two sources were admitted, the second with a newer tag than the first,
\* and the tag of the second admission came again from the first source.
C18_Witness ==
    /\ Len(accepted) = 2
    /\ Len(whitelisted) = 2
    /\ whitelisted[1] # whitelisted[2]
    /\ accepted[1] < accepted[2]
    /\ datagram.tag = Tag(Secret, accepted[2])
    /\ datagram.src = whitelisted[1]

\* C19: a datagram changes the whitelist, the rules or the minimum only when
\* its tag was computed with the server's secret for a second T with
\* now-59 <= T <= now; a tag for now-60, for a later second than now or with
\* another secret leaves all three as they are.
C19_WindowAndSecret ==
    [][ now' = now
          => \/ /\ datagram'.tag.key = Secret
                /\ now - 59 <= datagram'.tag.t
                /\ datagram'.tag.t <= now
             \/ UNCHANGED <<minimum, whitelisted, rules, accepted>> ]_vars

\* C19: a tag computed 59 seconds ago was accepted.
C19_Witness ==
    /\ Len(accepted) > 0
    /\ accepted[Len(accepted)] = now - 59
    /\ minimum = now - 59
    /\ datagram.tag = Tag(Secret, now - 59)
    /\ Len(whitelisted) = Len(accepted)

\* C20: a 32-byte datagram from a source that is not whitelisted, with a tag of
\* the server's secret for a second T of the window, is accepted when T is
\* greater than every timestamp accepted so far: always, when none was accepted.
C20_AdmissionComplete ==
    [][ ( /\ now' = now
          /\ datagram'.len = TagLen
          /\ ~\E k \in DOMAIN whitelisted : whitelisted[k] = datagram'.src
          /\ datagram'.tag.key = Secret
          /\ now - 59 <= datagram'.tag.t /\ datagram'.tag.t <= now
          /\ \A k \in DOMAIN accepted : accepted[k] < datagram'.tag.t )
        => /\ whitelisted' = Append(whitelisted, datagram'.src)
           /\ rules' = Append(rules, datagram'.src)
           /\ accepted' = Append(accepted, datagram'.tag.t) ]_vars

\* C21: a datagram whose length is not 32 bytes, shorter or longer, is never
\* verified: it changes neither the whitelist, the rules nor the minimum, also
\* when its first 32 bytes are a tag the server would accept.
C21_OtherSizesIgnored ==
    [][ (now' = now /\ datagram'.len # TagLen)
          => UNCHANGED <<minimum, whitelisted, rules, accepted>> ]_vars

\* C30: the timeout rule moves current only when the time since the last
\* progress is strictly greater than the timeout. An iteration on an accepted
\* message at an age of the timeout or less adds nothing to recv_dropped and
\* drains from the old current: current stays when nothing is emitted, and
\* what is emitted first is the entry at the old current.
C30_TimeoutStrict ==
    [][ /\ (recv_total' = recv_total + 1 /\ elapsed <= Timeout)
           => /\ recv_dropped' = recv_dropped
              /\ Len(emitted') = Len(emitted) => current' = current
              /\ Len(emitted') > Len(emitted)
                   => emitted'[Len(emitted) + 1].id = current
        /\ (recv_state = "running" /\ recv_state' = "returned" /\ elapsed <= Timeout)
           => /\ recv_dropped' = recv_dropped
              /\ current' = current ]_vars

\* C30: the time since the last progress is exactly the timeout, two messages
\* were accepted, the buffer's first entry is above current and nothing was
\* skipped.
C30_Witness ==
    /\ elapsed = Timeout
    /\ recv_total >= 2
    /\ DOMAIN packets # {}
    /\ FirstKey(packets) > current
    /\ packets[FirstKey(packets)].completed
    /\ recv_dropped = 0
    /\ recv_state = "running"

\* C22: in proxy mode the Receiver, processing a datagram from endpoint e to
\* port p, has the Source of p in the table with e attached, and every entry in
\* the buffer has the Source of its destination port; a datagram with source
\* port p that the Sender reads is sent, on every interface, to every endpoint
\* attached to the Source of p that has not expired, with the Source's ip and
\* port as its source.
C22_SnatRoundTrip ==
    [][ /\ \A m \in SnatMsgs :
              Inbound(m) => /\ m.destination_port \in DOMAIN sources'
                            /\ m.source \in DOMAIN sources'[m.destination_port].addrs
        /\ \A k \in DOMAIN packets' : packets'[k].destination \in DOMAIN sources'
        /\ \A p \in Ports :
              (p \in DOMAIN sources /\ Return(p))
                 => \A e \in DOMAIN sources[p].addrs :
                       instant - sources[p].addrs[e] <= Ttl
                         => \A k \in Interfaces :
                               \E j \in DOMAIN burst' :
                                  /\ burst'[j].interface = k
                                  /\ burst'[j].to = e
                                  /\ burst'[j].from = [ip |-> sources[p].ip, port |-> p] ]_vars

\* C23: the retain of an idle sweep removes exactly the endpoints whose age
\* exceeds the ttl when the retain runs: an endpoint whose age is the ttl or
\* less then, refreshed after the scan or not, stays with its timestamp, and no
\* endpoint older than the ttl is left in the swept Source. No other step of
\* the Sender or the Receiver removes an endpoint.
C23_SweepEvictsExpiredOnly ==
    [][ \A p \in DOMAIN sources :
          LET before == sources[p].addrs
              after == sources'[p].addrs
          IN IF evict = {p} /\ evict' = {}
             THEN /\ DOMAIN after \subseteq DOMAIN before
                  /\ \A a \in DOMAIN before :
                        IF instant - before[a] <= Ttl
                        THEN a \in DOMAIN after /\ after[a] = before[a]
                        ELSE a \notin DOMAIN after
                  /\ \A a \in DOMAIN after : instant' - after[a] <= Ttl
             ELSE DOMAIN before \subseteq DOMAIN after ]_vars

\* C23: a sweep is done in which the scan found an endpoint expired that was
\* refreshed before the retain and is still attached, while another endpoint of
\* the Source was evicted.
C23_Witness ==
    /\ sweep.done
    /\ evict = {}
    /\ \E a \in DOMAIN sweep.scanned :
          /\ sweep.before[a] > sweep.scanned[a]
          /\ a \in DOMAIN sources[sweep.port].addrs
    /\ \E b \in DOMAIN sweep.before : b \notin DOMAIN sources[sweep.port].addrs

\* C24: a key of the source table stays a key, with the Source it was inserted
\* with: its ip and port stay, a step of the Receiver keeps every endpoint the
\* Source had, and a sweep changes the addrs of the swept Source only.
C24_KeysPermanent ==
    [][ /\ DOMAIN sources \subseteq DOMAIN sources'
        /\ \A p \in DOMAIN sources :
              /\ sources'[p].ip = sources[p].ip
              /\ sources'[p].port = sources[p].port
              /\ nread' # nread => DOMAIN sources[p].addrs \subseteq DOMAIN sources'[p].addrs
              /\ evict # evict' =>
                    /\ DOMAIN sources' = DOMAIN sources
                    /\ p \notin evict => sources'[p] = sources[p] ]_vars

\* C24: both ports are keys, a sweep has evicted every endpoint of one Source
\* and the Source is still in the table.
C24_Witness ==
    /\ DOMAIN sources = Ports
    /\ sweep.done
    /\ evict = {}
    /\ DOMAIN sweep.before # {}
    /\ DOMAIN sources[sweep.port].addrs = {}

\* C25: the timestamp of an endpoint of a Source never decreases: a refresh
\* stores a value that is not smaller, and an endpoint that is inserted again
\* after a sweep evicted it gets a value that is not smaller than the one it
\* was evicted with. No timestamp is ahead of the clock.
C25_LastMonotonic ==
    [][ \A p \in DOMAIN sources' : \A a \in DOMAIN sources'[p].addrs :
          LET last == sources'[p].addrs[a]
          IN /\ last <= instant'
             /\ (p \in DOMAIN sources /\ a \in DOMAIN sources[p].addrs)
                   => last >= sources[p].addrs[a]
             /\ (sweep.done /\ sweep.port = p /\ a \in DOMAIN sweep.before)
                   => last >= sweep.before[a] ]_vars

\* C25: an endpoint that a sweep evicted is attached again, with a later
\* timestamp than the one it had.
C25_Witness ==
    /\ sweep.done
    /\ \E a \in DOMAIN sweep.before :
          /\ instant - sweep.before[a] > Ttl
          /\ a \in DOMAIN sources[sweep.port].addrs
          /\ sources[sweep.port].addrs[a] > sweep.before[a]

\* C28: the sequence in the trailer of logical packet n is n mod 2^26; the
\* logical packet after the one sent with sequence 2^26-1 is sent with sequence
\* 0, and the Sender keeps running.
C28_SequenceWraps ==
    [][ /\ \A j \in DOMAIN burst' :
              burst'[j].call = "send_to"
                => from_bytes(burst'[j].packet.extra).sequence = id % (2 ^ SequenceBits)
        /\ (id >= 2 ^ SequenceBits /\ send_read' = send_read + 1)
              => send_state' = "running" ]_vars

\* C29: the four trailer bytes on the wire, read as a 32-bit big-endian word,
\* hold fragments in the 3 most significant bits, sequence in the next 26 bits
\* and fragment in the 3 least significant bits.
C29_BigEndianLayout ==
    trailer.stage \in {"sent", "read"} =>
        LET b == trailer.bytes
        IN /\ b[1] \div (2 ^ (8 - FragmentsBits)) = trailer.extra.fragments
           /\ (b[1] % (2 ^ (8 - FragmentsBits))) * (2 ^ (SequenceBits - 8 + FragmentsBits))
                 + b[2] * (2 ^ (SequenceBits - 16 + FragmentsBits))
                 + b[3] * (2 ^ (8 - FragmentBits))
                 + (b[4] \div (2 ^ FragmentBits)) = trailer.extra.sequence
           /\ b[4] % (2 ^ FragmentBits) = trailer.extra.fragment

\* C26: once running is false, or the loop of a component has ended and its
\* listen returned, running is false and every thread ends: no component stays
\* in its loop or before it.
C26_CooperativeShutdown ==
    (~running \/ \E c \in Components : threads[c] \in {"ok", "err", "done"})
      ~> (~running /\ \A c \in Components : threads[c] \in {"done", "panicked", "absent"})

\* C26: the first component to end returned an error while running was true,
\* and all four threads have ended since.
C26_Witness ==
    /\ ~running
    /\ \A c \in Components : threads[c] = "done"
    /\ Len(results) = Cardinality(Components)
    /\ results[1][2] = "err"
    /\ \A j \in 2..Len(results) : results[j][2] = "ok"

\* C27: a rule is installed at most once and removed at most once; while the
\* component that installed it is in its loop the rule is in place, and once
\* the component's listen has ended, by the stop flag, a read error, an error
\* of a call or a panic, every rule it installed has been removed exactly once.
C27_RulesRemovedOnce ==
    \A r \in Rules :
        /\ table[r].added <= 1
        /\ table[r].deleted <= table[r].added
        /\ threads[r[1]] = "listen" => (table[r].added = 1 <=> r \in guards[r[1]])
        /\ threads[r[1]] = "listen" => table[r].deleted = 0
        /\ threads[r[1]] \in {"ok", "err", "panicked", "done"}
              => table[r].deleted = table[r].added

\* C27: every thread has ended, the Receiver on an error and the Sender on the
\* stop flag, and every rule, those of two admitted IPs among them, was
\* installed once and removed once.
C27_Witness ==
    /\ \A c \in Components : threads[c] = "done"
    /\ <<"receiver", "err">> \in { results[j] : j \in DOMAIN results }
    /\ <<"sender", "ok">> \in { results[j] : j \in DOMAIN results }
    /\ \A r \in Rules : table[r] = [added |-> 1, deleted |-> 1]


\* C31: a step of the Receiver that emits packets emits consecutive sequence
\* numbers, leaves current at the last emitted sequence plus one, goes on until
\* the entry at current is absent or incomplete, and resets last_progress.
C31_DrainAdvances ==
    [][ Len(emitted') > Len(emitted)
          => /\ current' = emitted'[Len(emitted')].id + 1
             /\ \A i \in (Len(emitted) + 1)..(Len(emitted') - 1) :
                   emitted'[i + 1].id = emitted'[i].id + 1
             /\ ~(current' \in DOMAIN packets' /\ packets'[current'].completed)
             /\ elapsed' = 0 ]_vars

\* C32: a message that is not UDP, or whose trailer sequence is below current,
\* is answered with DROP and nothing else happens: current, the buffer,
\* last_progress, the source table and the output stay as they are.
C32_RejectedLeavesState ==
    [][ \A m \in UdpMsgs \cup {OtherMsg} :
          ( /\ (m.protocol # "udp" \/ m.sequence < current)
            /\ (Reject(m) \/ Listen(m) \/ SendFails(m)) )
          => /\ verdicts' = [verdicts EXCEPT !.drop = @ + 1]
             /\ UNCHANGED <<packets, current, elapsed, sources, emitted>> ]_vars

\* C32: in proxy mode a datagram with a sequence below current was answered
\* while an entry was buffered and a Source was in the table.
C32_Witness ==
    /\ stale
    /\ snat
    /\ current > 0
    /\ DOMAIN packets # {}
    /\ DOMAIN sources # {}

\* The payloads of the first `upto` calls of a burst, one after the other.
RECURSIVE Joined(_, _)
Joined(calls, upto) ==
    IF upto = 0 THEN <<>>
    ELSE Joined(calls, upto - 1) \o calls[upto].packet.udp_payload

\* C33: a payload of n bytes at or above the threshold, with F = min(fragments,
\* interfaces) > 1, is cut into F contiguous pieces: floor(n/F) bytes in each of
\* the fragments 0..F-2 and floor(n/F) + (n mod F) in fragment F-1, which put
\* together in index order are the payload; a shorter payload, or F = 1, is sent
\* whole with trailer fragments = 1, fragment = 0.
C33_FragmentSizes ==
    [][ (send_read' = send_read + 1 /\ queued' > 0)
          => LET n == queued'
                 lesser == IF cfg_fragments < NumInterfaces
                           THEN cfg_fragments ELSE NumInterfaces
                 F == IF n >= FragmentThreshold THEN lesser ELSE 1
                 calls == burst'
                 sends == { j \in DOMAIN calls : calls[j].call = "send_to" }
                 whole == QueuedPayload(n)
             IN /\ \A j \in sends :
                      LET x == from_bytes(calls[j].packet.extra)
                          data == calls[j].packet.udp_payload
                          first == x.fragment * (n \div F)
                      IN /\ x.fragments = F
                         /\ x.fragment < F
                         /\ Len(data) = IF x.fragment = F - 1
                                        THEN (n \div F) + (n % F)
                                        ELSE n \div F
                         /\ data = SubSeq(whole, first + 1, first + Len(data))
                         /\ F = 1 => (x.fragment = 0 /\ data = whole)
                /\ (~snat /\ sends = 1..NumInterfaces)
                      => /\ \A i \in 0..(F - 1) :
                               from_bytes(calls[i + 1].packet.extra).fragment = i
                         /\ Joined(calls, F) = whole ]_vars

\* C33: a logical packet was sent in more than one fragment, on every
\* interface, and its last fragment is longer than its first.
C33_Witness ==
    /\ ~snat
    /\ Len(burst) = NumInterfaces
    /\ \A j \in DOMAIN burst : burst[j].call = "send_to"
    /\ from_bytes(burst[1].packet.extra).fragments > 1
    /\ \E j \in DOMAIN burst :
          /\ from_bytes(burst[j].packet.extra).fragment
                = from_bytes(burst[j].packet.extra).fragments - 1
          /\ Len(burst[j].packet.udp_payload) > Len(burst[1].packet.udp_payload)

\* C34: in forward mode every logical packet is sent as one datagram on each
\* interface, interface k carrying fragment k mod F, so that every fragment index
\* below F goes out on some interface and, when F is the number of interfaces,
\* each interface carries a fragment of its own.
C34_OneDatagramPerInterface ==
    [][ (send_read' = send_read + 1 /\ queued' > 0 /\ ~snat)
          => LET x(j) == from_bytes(burst'[j].packet.extra)
                 F == x(1).fragments
             IN /\ Len(burst') = NumInterfaces
                /\ \A j \in DOMAIN burst' :
                      /\ burst'[j].call = "send_to"
                      /\ burst'[j].interface = j - 1
                      /\ x(j).fragments = F
                      /\ x(j).fragment = (j - 1) % F
                /\ \A i \in 0..(F - 1) : \E j \in DOMAIN burst' : x(j).fragment = i
                /\ F = NumInterfaces
                      => \A j, k \in DOMAIN burst' :
                            x(j).fragment = x(k).fragment => j = k ]_vars

\* C35: the datagrams of one logical packet all carry the same sequence, the
\* number of logical packets sent before it: 0 for the first, one more for each
\* UDP packet that follows; a message that is not UDP leaves the counter alone.
C35_SequencePerPacket ==
    [][ send_read' = send_read + 1
          => /\ id = send_total
             /\ \A j \in DOMAIN burst' :
                   burst'[j].call = "send_to"
                     => from_bytes(burst'[j].packet.extra).sequence = send_total
             /\ (queued' > 0 /\ send_state' = "running") => id' = id + 1
             /\ (queued' = 0 /\ send_state' = "running") => id' = id ]_vars

\* C35: the Sender started at 0 has sent two logical packets and has dropped a
\* message that is not UDP; the last burst went out on every interface with
\* sequence 1.
C35_Witness ==
    /\ ~snat
    /\ id = 2
    /\ send_read = 3
    /\ send_verdicts.drop = 3
    /\ Len(burst) = NumInterfaces
    /\ \A j \in DOMAIN burst :
          burst[j].call = "send_to" /\ from_bytes(burst[j].packet.extra).sequence = 1

\* C36: current never decreases and no key of the buffer is below current, so
\* the timeout rule's `first - current` does not underflow and no buffered
\* entry is left behind current.
C36_CurrentMonotonic ==
    [][ /\ current' >= current
        /\ \A k \in DOMAIN packets' : k >= current' ]_vars

\* C36: the timeout rule has moved current forward, to an entry that is still
\* incomplete, and a later entry is buffered behind it.
C36_Witness ==
    /\ current > 0
    /\ recv_dropped > 0
    /\ current \in DOMAIN packets
    /\ ~packets[current].completed
    /\ \E k \in DOMAIN packets : k > current

\* C37: no message gets more than one verdict; while the loop runs, the
\* messages without a verdict are the ones held by the buffer's entries, one per
\* entry in forward mode; in proxy mode no entry holds a message and every
\* message that was read has its verdict, whether the loop still runs or not.
C37_VerdictAccounting ==
    LET held == { k \in DOMAIN packets : packets[k].msg }
    IN /\ verdicts.accept + verdicts.drop <= nread
       /\ (recv_state = "running" /\ ~snat)
             => /\ held = DOMAIN packets
                /\ verdicts.accept + verdicts.drop + Cardinality(held) = nread
       /\ snat => /\ held = {}
                  /\ verdicts.accept + verdicts.drop = nread

\* C39: no source IP is in the whitelist twice and there is one rule guard for
\* each whitelisted IP; a datagram from an IP that is whitelisted changes
\* neither the whitelist, the rules nor the minimum.
C39_WhitelistedOnce ==
    [][ /\ \A i, j \in DOMAIN whitelisted' : whitelisted'[i] = whitelisted'[j] => i = j
        /\ Len(rules') = Len(whitelisted')
        /\ \A k \in DOMAIN rules' : rules'[k] = whitelisted'[k]
        /\ ( /\ now' = now
             /\ \E k \in DOMAIN whitelisted : whitelisted[k] = datagram'.src )
           => UNCHANGED <<minimum, whitelisted, rules>> ]_vars

\* C39: the one whitelisted source has sent a 32-byte tag of the server's
\* secret for a second of the window that is newer than the minimum, and was
\* not admitted a second time.
C39_Witness ==
    /\ Len(whitelisted) = 1
    /\ Len(rules) = 1
    /\ datagram.src = whitelisted[1]
    /\ datagram.len = TagLen
    /\ datagram.tag.key = Secret
    /\ datagram.tag.t > minimum
    /\ datagram.tag.t <= now
    /\ datagram.tag.t > now - WINDOW_SIZE

\* C40: when the client sends the tag of the current second from each of its
\* interfaces once per second, with clocks in agreement, the same secret and no
\* beacon lost, every one of its source IPs is eventually whitelisted, although
\* the beacons of one second all carry the same timestamp.
C40_AllInterfacesAdmitted ==
    <>(\A ip \in SourceIps : \E k \in DOMAIN whitelisted : whitelisted[k] = ip)

\* C40: every source IP of the client is whitelisted, each admitted with the
\* tag of a second of its own.
C40_Witness ==
    /\ beaconed > StartTime
    /\ Len(whitelisted) = NumSources
    /\ \A ip \in SourceIps : \E k \in DOMAIN whitelisted : whitelisted[k] = ip
    /\ \A i, j \in DOMAIN accepted : i < j => accepted[i] < accepted[j]

\* C38: the Receiver and the Sender are never both waiting for a lock: in no
\* interleaving of the attach and the drain with the sweep and the sends does
\* each wait for a lock the other holds.
C38_NoDeadlock ==
    ~(Waits("receiver") /\ Waits("sender"))

\* C38: the Receiver, holding the table upgradable, waits for the upgrade of
\* addrs while the Sender holds the table and addrs shared.
C38_Witness ==
    /\ pc["receiver"].at = "insert_addr"
    /\ Waits("receiver")
    /\ rwlocks["table"].up = "receiver"
    /\ "sender" \in rwlocks["table"].readers
    /\ "sender" \in rwlocks["addrs"].readers

============================================================================
